---- MODULE Spec2Model ----
(***************************************************************************)
(* Football Arena: the simulation step (lib/gameLogic.ts simulate), the    *)
(* lobby (createGame, joinGame), the state read (getGameState) and the     *)
(* four action handlers (lib/gameActions.ts) over one stored game record.  *)
(*                                                                         *)
(* Numbers: the code computes on IEEE doubles.  Lengths and velocities are *)
(* held here as integers in 1/Unit pixel, products are truncated toward    *)
(* zero.  Times are integer milliseconds.  `undefined` is 0 for ids, times *)
(* and the speed override (the code tests all three by truthiness), NoPos  *)
(* for a position and "none" for the winner.                               *)
(*                                                                         *)
(* Store: GameStateModel.findOne / doc.save().  save() writes the paths    *)
(* the handler modified (assignments and markModified calls) and carries   *)
(* no expected-version predicate; no call site passes one.                 *)
(***************************************************************************)
EXTENDS Integers, Sequences, FiniteSets, TLC

\* ------------------------------------------------------------------ bounds
StartClock == 1000
MaxCalls == 2
Horizon == 50
HorizonC == 0
MaxActions == 2
MaxGap == 2
HorizonP == 5000
HorizonR == 6000

\* ------------------------------------------------------- GAME_CONFIG (px, ms)
FIELD_WIDTH == 1200
FIELD_HEIGHT == 800
GOAL_WIDTH == 150
PLAYER_RADIUS == 15
BALL_RADIUS == 8
PLAYER_SPEED == 20
BALL_FRICTION_PCT == 95
PASS_SPEED == 12
SHOOT_SPEED == 25
PASS_COOLDOWN == 500
SHOOT_COOLDOWN == 1000
TACKLE_COOLDOWN == 2000
MOVE_COOLDOWN == 100
POSSESSION_DISTANCE == 25
TACKLE_DISTANCE == 30
COUNTDOWN_DURATION == 3000
SIMULATION_STEP == 50
MIN_PLAYER_SPEED == 5
MAX_PLAYER_SPEED == 50
MIN_PASS_SPEED == 5
MAX_PASS_SPEED == 20
MIN_SHOOT_SPEED == 10
MAX_SHOOT_SPEED == 40

\* --------------------------------------------------------------- arithmetic
Unit == 10 * 10 * 10

Px(n) == n * Unit

Abs(n) == IF n < 0 THEN -n ELSE n

Min(a, b) == IF a <= b THEN a ELSE b

Max(a, b) == IF a >= b THEN a ELSE b

\* a * num / den, truncated toward zero
MulDiv(a, num, den) == IF a >= 0 THEN (a * num) \div den ELSE -(((-a) * num) \div den)

RECURSIVE SqrtSearch(_, _, _)
SqrtSearch(n, lo, hi) ==
    IF lo >= hi THEN lo
    ELSE LET mid == (lo + hi + 1) \div 2
         IN IF mid * mid <= n THEN SqrtSearch(n, mid, hi) ELSE SqrtSearch(n, lo, mid - 1)

\* floor of the square root, n < 2^31
ISqrt(n) == SqrtSearch(n, 0, 46340)

Pos(x, y) == [x |-> x, y |-> y]

NoPos == [x |-> -1, y |-> -1]

Vel(vx, vy) == [vx |-> vx, vy |-> vy]

Sq(a) == a * a

\* Math.sqrt(dx*dx + dy*dy): exact on an axis, to 0.1 px otherwise
Hypot(dx, dy) ==
    IF dy = 0 THEN Abs(dx)
    ELSE IF dx = 0 THEN Abs(dy)
    ELSE 100 * ISqrt(Sq(Abs(dx) \div 100) + Sq(Abs(dy) \div 100))

distance(p1, p2) == Hypot(p1.x - p2.x, p1.y - p2.y)

\* distance(p1, p2) <= r px, for r <= 30 px, exact
WithinPx(p1, p2, r) ==
    /\ Abs(p1.x - p2.x) <= Px(r)
    /\ Abs(p1.y - p2.y) <= Px(r)
    /\ (p1.x - p2.x) * (p1.x - p2.x) + (p1.y - p2.y) * (p1.y - p2.y) <= Px(r) * Px(r)

Clamp(lo, hi, v) == Max(lo, Min(hi, v))

\* A clamp that lets every position through
NoClamp(pos) == pos

ClampPlayer(p) == Pos(Clamp(Px(PLAYER_RADIUS), Px(FIELD_WIDTH - PLAYER_RADIUS), p.x),
                      Clamp(Px(PLAYER_RADIUS), Px(FIELD_HEIGHT - PLAYER_RADIUS), p.y))

ClampBall(p) == Pos(Clamp(Px(BALL_RADIUS), Px(FIELD_WIDTH - BALL_RADIUS), p.x),
                    Clamp(Px(BALL_RADIUS), Px(FIELD_HEIGHT - BALL_RADIUS), p.y))

\* ------------------------------------------------------------------ records
NoStats == [goals |-> 0, assists |-> 0, passes |-> 0, tackles |-> 0]

allPlayers(state) == state.teamA \o state.teamB

PlayerById(state, id) ==
    LET all == allPlayers(state)
        idx == {i \in DOMAIN all : all[i].id = id}
    IN all[CHOOSE i \in idx : \A j \in idx : i <= j]

HasPlayer(state, id) == \E i \in DOMAIN allPlayers(state) : allPlayers(state)[i].id = id

\* the roster with the player whose id is new.id replaced by new
Replace(roster, new) ==
    [i \in DOMAIN roster |-> IF roster[i].id = new.id THEN new ELSE roster[i]]

\* the record after an assignment to fields of one player
SetPlayer(state, new) ==
    [state EXCEPT !.teamA = Replace(@, new), !.teamB = Replace(@, new)]

\* ---------------------------------------------------------------- simulate
\* Each part of simulate yields the record it leaves, whether it set
\* stateChanged, and the paths it marked modified or assigned.
Outcome(state, changed, paths) == [state |-> state, changed |-> changed, paths |-> paths]

\* b after a: b ran on the record a left
Then(a, b) == Outcome(b.state, a.changed \/ b.changed, a.paths \cup b.paths)

First(S) == CHOOSE i \in S : \A j \in S : i <= j

Last(S) == CHOOSE i \in S : \A j \in S : j <= i

\* ------------------------------------------------------ simulate: locomotion
TargetDist(player) == Hypot(player.targetPosition.x - player.position.x,
                            player.targetPosition.y - player.position.y)

\* gameLogic.ts:53: the player still has more than the 0.5 px epsilon to go
Moving(player) == player.targetPosition # NoPos /\ TargetDist(player) > Unit \div 2

\* A stride that leaves the player where it is
StrideInPlace(player, dist, moveAmount) == player

\* gameLogic.ts:57-62: moveAmount along the unit vector to the target, clamped
Stride(player, dist, moveAmount) ==
    [player EXCEPT !.position = ClampPlayer(Pos(
        @.x + MulDiv(MulDiv(player.targetPosition.x - @.x, Unit, dist), moveAmount, Unit),
        @.y + MulDiv(MulDiv(player.targetPosition.y - @.y, Unit, dist), moveAmount, Unit)))]

\* An arrival that keeps the target
ApproachKeepsTarget(player, dist) ==
    IF dist > Unit \div 2
    THEN Stride(player, dist,
                Min(Px(IF player.speed # 0 THEN player.speed ELSE PLAYER_SPEED), dist))
    ELSE player

\* gameLogic.ts:53-79, dist the distance to the target
Approach(player, dist) ==
    IF dist > Unit \div 2
    THEN Stride(player, dist,
                Min(Px(IF player.speed # 0 THEN player.speed ELSE PLAYER_SPEED), dist))
    ELSE [player EXCEPT !.targetPosition = NoPos]

StepPlayer(player) ==
    IF player.targetPosition = NoPos THEN player ELSE Approach(player, TargetDist(player))

\* gameLogic.ts:47-81: every player of both rosters steps
StepAll(state) ==
    [state EXCEPT !.teamA = [i \in DOMAIN @ |-> StepPlayer(@[i])],
                  !.teamB = [i \in DOMAIN @ |-> StepPlayer(@[i])]]

\* the players who step this tick with the ball at their feet, in loop order
Carriers(state) ==
    {i \in DOMAIN allPlayers(state) :
        /\ Moving(allPlayers(state)[i])
        /\ allPlayers(state)[i].hasBall
        /\ state.ball.possessionPlayerId = allPlayers(state)[i].id}

\* gameLogic.ts:65-68: the ball ends on the last carrier of the loop
Carry(moved, carriers) ==
    IF carriers = {} THEN Outcome(moved, FALSE, {})
    ELSE Outcome([moved EXCEPT !.ball.position = allPlayers(moved)[Last(carriers)].position],
                 FALSE, {"ball.position"})

\* players loop of simulate: every player with a target steps or arrives
Locomotion(state) ==
    IF \E i \in DOMAIN allPlayers(state) : allPlayers(state)[i].targetPosition # NoPos
    THEN Then(Outcome(state, TRUE, {"teamA", "teamB"}),
              Carry(StepAll(state), Carriers(state)))
    ELSE Outcome(state, FALSE, {})

\* --------------------------------------------------------- simulate: the ball
Friction(v) == MulDiv(v, BALL_FRICTION_PCT, 100)

\* A decay that never snaps to rest
NoSnap(vx, vy) == Vel(vx, vy)

\* gameLogic.ts:88-95: decay, snap to rest
Decay(vx, vy) ==
    IF Abs(vx) < Unit \div 10 /\ Abs(vy) < Unit \div 10 THEN Vel(0, 0) ELSE Vel(vx, vy)

\* gameLogic.ts:86-99: integrate, decay, snap to rest, clamp
BallFlight(ball) ==
    [ball EXCEPT !.position = ClampBall(Pos(@.x + ball.velocity.vx, @.y + ball.velocity.vy)),
                 !.velocity = Decay(Friction(@.vx), Friction(@.vy))]

InGoalBand(pos) ==
    /\ pos.y >= Px(FIELD_HEIGHT) \div 2 - Px(GOAL_WIDTH) \div 2
    /\ pos.y <= Px(FIELD_HEIGHT) \div 2 + Px(GOAL_WIDTH) \div 2

\* Team A's goal, x = 0: team B scores
InLeftGoal(pos) == pos.x <= Px(BALL_RADIUS) /\ InGoalBand(pos)

\* Team B's goal, x = FIELD_WIDTH: team A scores
InRightGoal(pos) == pos.x >= Px(FIELD_WIDTH - BALL_RADIUS) /\ InGoalBand(pos)

Centre == Pos(Px(FIELD_WIDTH) \div 2, Px(FIELD_HEIGHT) \div 2)

\* gameLogic.ts:198
Dispossess(roster) == [i \in DOMAIN roster |-> [roster[i] EXCEPT !.hasBall = FALSE]]

resetBall(state) ==
    [state
        EXCEPT !.teamA = Dispossess(@),
               !.teamB = Dispossess(@),
               !.ball.position = Centre,
               !.ball.velocity = Vel(0, 0),
               !.ball.possessionPlayerId = 0]

\* gameLogic.ts:113-119: the first player of the scoring roster with that id
CreditScorer(roster, id) ==
    IF id = 0 \/ ~\E i \in DOMAIN roster : roster[i].id = id THEN roster
    ELSE [roster EXCEPT ![First({i \in DOMAIN roster : roster[i].id = id})].stats.goals = @ + 1]

\* A goal that credits the last toucher whichever roster holds it
ScoredByAnyone(state, team) ==
    IF team = "B"
    THEN [state EXCEPT !.score.teamB = @ + 1,
                       !.teamA = CreditScorer(@, state.ball.lastTouchPlayerId),
                       !.teamB = CreditScorer(@, state.ball.lastTouchPlayerId)]
    ELSE [state EXCEPT !.score.teamA = @ + 1,
                       !.teamA = CreditScorer(@, state.ball.lastTouchPlayerId),
                       !.teamB = CreditScorer(@, state.ball.lastTouchPlayerId)]

\* score++ and the scorer's goal
Scored(state, team) ==
    IF team = "B"
    THEN [state EXCEPT !.score.teamB = @ + 1,
                       !.teamB = CreditScorer(@, state.ball.lastTouchPlayerId)]
    ELSE [state EXCEPT !.score.teamA = @ + 1,
                       !.teamA = CreditScorer(@, state.ball.lastTouchPlayerId)]

\* A win check that asks for one goal more than goalsToWin
DecideLate(state, team, now) ==
    IF (IF team = "B" THEN state.score.teamB ELSE state.score.teamA) > state.config.goalsToWin
    THEN Outcome([state EXCEPT !.status = "finished", !.winner = team, !.finishedAt = now],
                 TRUE, {"score", "ball", "teamA", "teamB", "status", "winner", "finishedAt"})
    ELSE Outcome(state, TRUE, {"score", "ball", "teamA", "teamB"})

\* gameLogic.ts:124-128 and 147-151: the win check after the reset
Decide(state, team, now) ==
    IF (IF team = "B" THEN state.score.teamB ELSE state.score.teamA) >= state.config.goalsToWin
    THEN Outcome([state EXCEPT !.status = "finished", !.winner = team, !.finishedAt = now],
                 TRUE, {"score", "ball", "teamA", "teamB", "status", "winner", "finishedAt"})
    ELSE Outcome(state, TRUE, {"score", "ball", "teamA", "teamB"})

\* gameLogic.ts:108-152, one of the two goal branches, for the scoring team
ScoreGoal(state, team, now) == Decide(resetBall(Scored(state, team)), team, now)

\* gameLogic.ts:104-152 on the record the flight left
Goals(state, now) ==
    IF InLeftGoal(state.ball.position) THEN ScoreGoal(state, "B", now)
    ELSE IF InRightGoal(state.ball.position) THEN ScoreGoal(state, "A", now)
    ELSE Outcome(state, FALSE, {})

\* gameLogic.ts:157-158
CanClaim(state, player) == WithinPx(player.position, state.ball.position, POSSESSION_DISTANCE)

\* A claim that records the possessor on the ball but not on the player
TakeBallUnflagged(state, id) ==
    Outcome([state EXCEPT !.ball.possessionPlayerId = id,
                          !.ball.lastTouchPlayerId = id,
                          !.ball.velocity = Vel(0, 0)],
            TRUE, {"ball", "teamA", "teamB"})

\* gameLogic.ts:159-166 for the claiming player
TakeBall(state, id) ==
    Outcome([SetPlayer(state, [PlayerById(state, id) EXCEPT !.hasBall = TRUE])
                EXCEPT !.ball.possessionPlayerId = id,
                       !.ball.lastTouchPlayerId = id,
                       !.ball.velocity = Vel(0, 0)],
            TRUE, {"ball", "teamA", "teamB"})

\* A claim that goes to the last player in roster order within reach
ClaimPossessionLast(state) ==
    IF \E i \in DOMAIN allPlayers(state) : CanClaim(state, allPlayers(state)[i])
    THEN TakeBall(state,
             allPlayers(state)[Last({i \in DOMAIN allPlayers(state) :
                                        CanClaim(state, allPlayers(state)[i])})].id)
    ELSE Outcome(state, FALSE, {})

\* gameLogic.ts:154-169: the first player in roster order within
\* POSSESSION_DISTANCE takes the ball
ClaimPossession(state) ==
    IF \E i \in DOMAIN allPlayers(state) : CanClaim(state, allPlayers(state)[i])
    THEN TakeBall(state,
             allPlayers(state)[First({i \in DOMAIN allPlayers(state) :
                                         CanClaim(state, allPlayers(state)[i])})].id)
    ELSE Outcome(state, FALSE, {})

\* the claim runs on whatever the goal check left
Claimed(o) == Then(o, ClaimPossession(o.state))

\* gameLogic.ts:84-169: the free-ball branch
FreeBall(state, now) ==
    Then(Outcome(state, FALSE, {"ball"}),
         Claimed(Goals([state EXCEPT !.ball = BallFlight(@)], now)))

\* gameLogic.ts:170-178: a possessed ball sits on its possessor
FollowPossessor(state) ==
    IF HasPlayer(state, state.ball.possessionPlayerId)
    THEN Outcome([state EXCEPT !.ball.position =
                      PlayerById(state, state.ball.possessionPlayerId).position],
                 FALSE, {"ball.position"})
    ELSE Outcome(state, FALSE, {})

\* gameLogic.ts:83-178 on the record the players loop left
BallStep(state, now) ==
    IF state.ball.possessionPlayerId = 0 THEN FreeBall(state, now) ELSE FollowPossessor(state)

\* gameLogic.ts:180-182
Bump(o) ==
    IF o.changed
    THEN Outcome([o.state EXCEPT !.version = @ + 1], TRUE, o.paths \cup {"version"})
    ELSE o

\* after the players loop: the ball
Ball(o, now) == Then(o, BallStep(o.state, now))

\* the body of `if (state.status === "playing")`; o is what the countdown
\* check left
PlayingStep(o, now) ==
    IF o.state.status = "playing"
    THEN Bump(Then(o, Ball(Locomotion(o.state), now)))
    ELSE o

\* A countdown that needs more than COUNTDOWN_DURATION to run out
CountdownOverLate(state, now) ==
    /\ state.status = "countdown"
    /\ state.countdownStartTime # 0
    /\ now - state.countdownStartTime > COUNTDOWN_DURATION

CountdownOver(state, now) ==
    /\ state.status = "countdown"
    /\ state.countdownStartTime # 0
    /\ now - state.countdownStartTime >= COUNTDOWN_DURATION

\* gameLogic.ts:34-42
Countdown(state, now) ==
    IF CountdownOver(state, now)
    THEN Outcome([state EXCEPT !.status = "playing", !.startedAt = now,
                               !.countdownStartTime = 0],
                 TRUE, {"status", "startedAt", "countdownStartTime"})
    ELSE Outcome(state, FALSE, {})

\* gameLogic.ts:185
Stamp(o, now) ==
    Outcome([o.state EXCEPT !.lastUpdate = now], o.changed, o.paths \cup {"lastUpdate"})

\* simulate(state, now): the record it leaves, its return value and the paths
\* it modified
simulate(state, now) ==
    IF now - state.lastUpdate < SIMULATION_STEP
    THEN Outcome(state, FALSE, {})
    ELSE Stamp(PlayingStep(Countdown(state, now), now), now)


\* ------------------------------------------------------------------- lobby
getInitialPosition(role, team, teamSize) ==
    LET centerY == FIELD_HEIGHT \div 2
        isTeamA == team = "A"
    IN CASE role = "goalkeeper" ->
              Pos(Px(IF isTeamA THEN 50 ELSE FIELD_WIDTH - 50), Px(centerY))
         [] role = "defender" ->
              Pos(Px(IF isTeamA THEN 200 ELSE FIELD_WIDTH - 200),
                  Px(centerY + (IF teamSize % 2 = 0 THEN -100 ELSE 100)))
         [] role = "midfielder" ->
              Pos(Px(FIELD_WIDTH \div 2 + (IF isTeamA THEN -100 ELSE 100)),
                  Px(centerY + (IF teamSize % 3 = 0 THEN -150
                                ELSE IF teamSize % 3 = 1 THEN 0 ELSE 150)))
         [] role = "striker" ->
              Pos(Px(IF isTeamA THEN FIELD_WIDTH - 300 ELSE 300), Px(centerY))

NewPlayer(id, team, role, teamSize) ==
    [id |-> id, team |-> team, role |-> role,
     position |-> getInitialPosition(role, team, teamSize),
     targetPosition |-> NoPos, speed |-> 0, hasBall |-> FALSE,
     lastActionTime |-> 0, stats |-> NoStats]

\* createGame: the record GameStateModel.create stores; 0 stands for an
\* option the caller left out
createGame(playerId, playersPerTeam, goalsToWin, now) ==
    [status |-> "waiting",
     config |-> [playersPerTeam |-> IF playersPerTeam # 0 THEN playersPerTeam ELSE 5,
                 goalsToWin |-> IF goalsToWin # 0 THEN goalsToWin ELSE 3],
     teamA |-> <<NewPlayer(playerId, "A", "striker", 0)>>,
     teamB |-> <<>>,
     ball |-> [position |-> Centre, velocity |-> Vel(0, 0),
               possessionPlayerId |-> 0, lastTouchPlayerId |-> 0],
     score |-> [teamA |-> 0, teamB |-> 0],
     winner |-> "none",
     startedAt |-> 0, finishedAt |-> 0, countdownStartTime |-> 0,
     lastUpdate |-> now,
     version |-> 0]

Count(roster, role) == Cardinality({i \in DOMAIN roster : roster[i].role = role})

\* A role choice that fills the defenders before the goalkeeper
autoAssignRoleDefendersFirst(team) ==
    IF Count(team, "defender") < 2 THEN "defender"
    ELSE IF Count(team, "goalkeeper") = 0 THEN "goalkeeper"
    ELSE IF Count(team, "midfielder") < 2 THEN "midfielder"
    ELSE "striker"

autoAssignRole(team) ==
    IF Count(team, "goalkeeper") = 0 THEN "goalkeeper"
    ELSE IF Count(team, "defender") < 2 THEN "defender"
    ELSE IF Count(team, "midfielder") < 2 THEN "midfielder"
    ELSE "striker"

Other(team) == IF team = "A" THEN "B" ELSE "A"

Roster(game, team) == IF team = "A" THEN game.teamA ELSE game.teamB

\* A refusal that saves the document before it returns
FailSaved(game, paths, msg) ==
    [ok |-> FALSE, msg |-> msg, state |-> game, paths |-> paths, saved |-> TRUE]

\* What a handler leaves when it returns: its answer, the document in memory,
\* the paths modified on it, and whether it awaited save().
\* Fail: a `return { success: false }`, which precedes every save()
Fail(game, paths, msg) ==
    [ok |-> FALSE, msg |-> msg, state |-> game, paths |-> paths, saved |-> FALSE]

\* A return after a save() that also pushes lastUpdate a step ahead
DoneStamping(game, msg, paths) ==
    [ok |-> TRUE, msg |-> msg,
     state |-> [game EXCEPT !.lastUpdate = @ + SIMULATION_STEP],
     paths |-> paths \cup {"lastUpdate"}, saved |-> TRUE]

\* Done: the return after `await game.save()`
Done(game, msg, paths) ==
    [ok |-> TRUE, msg |-> msg, state |-> game, paths |-> paths, saved |-> TRUE]

\* A join that starts the countdown as soon as either roster is full
joinGameEarlyStart(game, now, playerId, teamPreference, role) ==
    LET full(t) == Len(Roster(game, t)) >= game.config.playersPerTeam
        targetTeam == IF teamPreference # "none"
                      THEN (IF full(teamPreference) THEN Other(teamPreference)
                            ELSE teamPreference)
                      ELSE (IF Len(game.teamA) <= Len(game.teamB) THEN "A" ELSE "B")
        team == Roster(game, targetTeam)
        assignedRole == IF role # "none" THEN role ELSE autoAssignRole(team)
        newPlayer == NewPlayer(playerId, targetTeam, assignedRole, Len(team))
        pushed == IF targetTeam = "A"
                  THEN [game EXCEPT !.teamA = Append(@, newPlayer), !.version = @ + 1]
                  ELSE [game EXCEPT !.teamB = Append(@, newPlayer), !.version = @ + 1]
        start == \/ Len(pushed.teamA) >= pushed.config.playersPerTeam
                 \/ Len(pushed.teamB) >= pushed.config.playersPerTeam
    IN IF game.status # "waiting" THEN Fail(game, {}, "Game already started")
       ELSE IF teamPreference # "none" /\ full(teamPreference) /\ full(Other(teamPreference))
       THEN Fail(game, {}, "Game is full")
       ELSE IF start
       THEN Done([pushed EXCEPT !.status = "countdown", !.countdownStartTime = now],
                 "joined",
                 {"teamA", "teamB", "version", "status", "countdownStartTime"})
       ELSE Done(pushed, "joined", {"teamA", "teamB", "version"})

\* joinGame after findOne found the record; "none" stands for an omitted
\* teamPreference or role
joinGame(game, now, playerId, teamPreference, role) ==
    LET full(t) == Len(Roster(game, t)) >= game.config.playersPerTeam
        targetTeam == IF teamPreference # "none"
                      THEN (IF full(teamPreference) THEN Other(teamPreference)
                            ELSE teamPreference)
                      ELSE (IF Len(game.teamA) <= Len(game.teamB) THEN "A" ELSE "B")
        team == Roster(game, targetTeam)
        assignedRole == IF role # "none" THEN role ELSE autoAssignRole(team)
        newPlayer == NewPlayer(playerId, targetTeam, assignedRole, Len(team))
        pushed == IF targetTeam = "A"
                  THEN [game EXCEPT !.teamA = Append(@, newPlayer), !.version = @ + 1]
                  ELSE [game EXCEPT !.teamB = Append(@, newPlayer), !.version = @ + 1]
        start == /\ Len(pushed.teamA) >= pushed.config.playersPerTeam
                 /\ Len(pushed.teamB) >= pushed.config.playersPerTeam
    IN IF game.status # "waiting" THEN Fail(game, {}, "Game already started")
       ELSE IF teamPreference # "none" /\ full(teamPreference) /\ full(Other(teamPreference))
       THEN Fail(game, {}, "Game is full")
       ELSE IF start
       THEN Done([pushed EXCEPT !.status = "countdown", !.countdownStartTime = now],
                 "joined",
                 {"teamA", "teamB", "version", "status", "countdownStartTime"})
       ELSE Done(pushed, "joined", {"teamA", "teamB", "version"})

\* getGameState after findOne found the record: simulate, then save when
\* `changed || game.isModified()`.  Here and in the action handlers sim is what
\* the handler's call simulate(game, now) returns and leaves in the record.
getGameState(game, sim, now) ==
    [ok |-> TRUE, msg |-> "state", state |-> sim.state, paths |-> sim.paths,
     saved |-> sim.changed \/ sim.paths # {}]


\* ---------------------------------------------------------- action handlers
\* An omitted speed argument
NoSpeed == 0 - 1

\* A cooldown test that never holds a player back
NeverOnCooldown(player, now, cooldown) == FALSE

OnCooldown(player, now, cooldown) ==
    player.lastActionTime # 0 /\ now - player.lastActionTime < cooldown

\* unit(dx, dy) * speed, as gameActions.ts:150-155 and 234-239 compute it
Aim(from, to, speed) ==
    LET dx == to.x - from.x
        dy == to.y - from.y
        dist == Hypot(dx, dy)
    IN Vel(MulDiv(MulDiv(dx, Unit, dist), Px(speed), Unit),
           MulDiv(MulDiv(dy, Unit, dist), Px(speed), Unit))

\* A movePlayer that takes any speed
movePlayerAnySpeed(game0, sim, now, playerId, targetX, targetY, speed) ==
    LET game == sim.state
        player == PlayerById(game, playerId)
        clamped == ClampPlayer(Pos(targetX, targetY))
        dist == Hypot(clamped.x - player.position.x, clamped.y - player.position.y)
        moved == SetPlayer(game,
                     [player EXCEPT !.speed = IF speed # NoSpeed THEN speed ELSE @,
                                    !.targetPosition = clamped,
                                    !.lastActionTime = now])
    IN IF game0.status # "playing" THEN Fail(game0, {}, "Game not in progress")
       ELSE IF ~HasPlayer(game, playerId) THEN Fail(game, sim.paths, "Player not found")
       ELSE IF OnCooldown(player, now, MOVE_COOLDOWN) THEN Fail(game, sim.paths, "Move cooldown active")
       ELSE IF dist < Unit THEN Fail(game, sim.paths, "Already at target position")
       ELSE Done([moved EXCEPT !.version = @ + 1], "moving",
                 sim.paths \cup {"teamA", "teamB", "version"})

\* movePlayer after findOne found the record (gameActions.ts:20-74)
movePlayer(game0, sim, now, playerId, targetX, targetY, speed) ==
    LET game == sim.state
        player == PlayerById(game, playerId)
        clamped == ClampPlayer(Pos(targetX, targetY))
        dist == Hypot(clamped.x - player.position.x, clamped.y - player.position.y)
        moved == SetPlayer(game,
                     [player EXCEPT !.speed = IF speed # NoSpeed THEN speed ELSE @,
                                    !.targetPosition = clamped,
                                    !.lastActionTime = now])
    IN IF game0.status # "playing" THEN Fail(game0, {}, "Game not in progress")
       ELSE IF ~HasPlayer(game, playerId) THEN Fail(game, sim.paths, "Player not found")
       ELSE IF OnCooldown(player, now, MOVE_COOLDOWN) THEN Fail(game, sim.paths, "Move cooldown active")
       ELSE IF speed # NoSpeed /\ speed < MIN_PLAYER_SPEED THEN Fail(game, sim.paths, "Speed too low")
       ELSE IF speed # NoSpeed /\ speed > MAX_PLAYER_SPEED THEN Fail(game, sim.paths, "Speed too high")
       ELSE IF dist < Unit
       THEN Fail(IF speed # NoSpeed
                 THEN SetPlayer(game, [player EXCEPT !.speed = speed])
                 ELSE game,
                 sim.paths \cup (IF speed # NoSpeed THEN {"teamA", "teamB"} ELSE {}),
                 "Already at target position")
       ELSE Done([moved EXCEPT !.version = @ + 1], "moving",
                 sim.paths \cup {"teamA", "teamB", "version"})

\* passBall after findOne found the record (gameActions.ts:108-171)
passBall(game0, sim, now, playerId, targetPlayerId, speed) ==
    LET game == sim.state
        player == PlayerById(game, playerId)
        targetPlayer == PlayerById(game, targetPlayerId)
        passSpeed == IF speed # NoSpeed THEN speed ELSE PASS_SPEED
        dist == distance(targetPlayer.position, player.position)
        released == SetPlayer(game,
                        [player EXCEPT !.hasBall = FALSE,
                                       !.stats.passes = @ + 1,
                                       !.lastActionTime = now])
    IN IF game0.status # "playing" THEN Fail(game0, {}, "Game not in progress")
       ELSE IF ~HasPlayer(game, playerId) THEN Fail(game, sim.paths, "Player not found")
       ELSE IF ~player.hasBall \/ game.ball.possessionPlayerId # playerId
       THEN Fail(game, sim.paths, "Player doesn't have the ball")
       ELSE IF OnCooldown(player, now, PASS_COOLDOWN) THEN Fail(game, sim.paths, "Pass cooldown active")
       ELSE IF ~HasPlayer(game, targetPlayerId) THEN Fail(game, sim.paths, "Target player not found")
       ELSE IF targetPlayer.team # player.team THEN Fail(game, sim.paths, "Cannot pass to opponent")
       ELSE IF speed # NoSpeed /\ speed < MIN_PASS_SPEED THEN Fail(game, sim.paths, "Speed too low")
       ELSE IF speed # NoSpeed /\ speed > MAX_PASS_SPEED THEN Fail(game, sim.paths, "Speed too high")
       ELSE Done([released EXCEPT
                     !.ball.velocity = IF dist > 0
                                       THEN Aim(player.position, targetPlayer.position, passSpeed)
                                       ELSE @,
                     !.ball.possessionPlayerId = 0,
                     !.version = @ + 1],
                 "passed",
                 sim.paths \cup {"ball", "teamA", "teamB", "version"})

\* shoot after findOne found the record (gameActions.ts:195-254)
shoot(game0, sim, now, playerId, speed) ==
    LET game == sim.state
        player == PlayerById(game, playerId)
        shootSpeed == IF speed # NoSpeed THEN speed ELSE SHOOT_SPEED
        targetGoal == Pos(IF player.team = "A" THEN Px(FIELD_WIDTH) ELSE 0,
                          Px(FIELD_HEIGHT) \div 2)
        dist == distance(targetGoal, player.position)
        released == SetPlayer(game, [player EXCEPT !.hasBall = FALSE, !.lastActionTime = now])
    IN IF game0.status # "playing" THEN Fail(game0, {}, "Game not in progress")
       ELSE IF ~HasPlayer(game, playerId) THEN Fail(game, sim.paths, "Player not found")
       ELSE IF ~player.hasBall \/ game.ball.possessionPlayerId # playerId
       THEN Fail(game, sim.paths, "Player doesn't have the ball")
       ELSE IF OnCooldown(player, now, SHOOT_COOLDOWN) THEN Fail(game, sim.paths, "Shoot cooldown active")
       ELSE IF speed # NoSpeed /\ speed < MIN_SHOOT_SPEED THEN Fail(game, sim.paths, "Speed too low")
       ELSE IF speed # NoSpeed /\ speed > MAX_SHOOT_SPEED THEN Fail(game, sim.paths, "Speed too high")
       ELSE Done([released EXCEPT
                     !.ball.velocity = IF dist > 0
                                       THEN Aim(player.position, targetGoal, shootSpeed)
                                       ELSE @,
                     !.ball.possessionPlayerId = 0,
                     !.version = @ + 1],
                 "shot",
                 sim.paths \cup {"ball", "teamA", "teamB", "version"})

\* A tackle that counts the attempt in stats.tackles whatever the draw
tackleCountingAttempts(game0, sim, now, playerId, targetPlayerId, success, bounce) ==
    LET game == sim.state
        player == PlayerById(game, playerId)
        targetPlayer == PlayerById(game, targetPlayerId)
        stamped == SetPlayer(game, [player EXCEPT !.stats.tackles = @ + 1,
                                                  !.lastActionTime = now])
        won == SetPlayer(SetPlayer(game, [targetPlayer EXCEPT !.hasBall = FALSE]),
                         [player EXCEPT !.stats.tackles = @ + 1, !.lastActionTime = now])
        paths == sim.paths \cup {"ball", "teamA", "teamB", "version"}
    IN IF game0.status # "playing" THEN Fail(game0, {}, "Game not in progress")
       ELSE IF ~HasPlayer(game, playerId) THEN Fail(game, sim.paths, "Player not found")
       ELSE IF OnCooldown(player, now, TACKLE_COOLDOWN)
       THEN Fail(game, sim.paths, "Tackle cooldown active")
       ELSE IF ~HasPlayer(game, targetPlayerId) THEN Fail(game, sim.paths, "Target player not found")
       ELSE IF targetPlayer.team = player.team THEN Fail(game, sim.paths, "Cannot tackle teammate")
       ELSE IF ~targetPlayer.hasBall THEN Fail(game, sim.paths, "Target doesn't have the ball")
       ELSE IF ~WithinPx(player.position, targetPlayer.position, TACKLE_DISTANCE)
       THEN Fail(game, sim.paths, "Too far to tackle")
       ELSE IF success
       THEN Done([won EXCEPT !.ball.possessionPlayerId = 0,
                             !.ball.velocity = bounce,
                             !.version = @ + 1],
                 "Tackle successful!", paths)
       ELSE Done([stamped EXCEPT !.version = @ + 1], "Tackle failed", paths)

\* tackle after findOne found the record (gameActions.ts:278-337); success is
\* the draw Math.random() < TACKLE_SUCCESS_RATE, bounce the velocity drawn for
\* the freed ball
tackle(game0, sim, now, playerId, targetPlayerId, success, bounce) ==
    LET game == sim.state
        player == PlayerById(game, playerId)
        targetPlayer == PlayerById(game, targetPlayerId)
        stamped == SetPlayer(game, [player EXCEPT !.lastActionTime = now])
        won == SetPlayer(SetPlayer(game, [targetPlayer EXCEPT !.hasBall = FALSE]),
                         [player EXCEPT !.stats.tackles = @ + 1, !.lastActionTime = now])
        paths == sim.paths \cup {"ball", "teamA", "teamB", "version"}
    IN IF game0.status # "playing" THEN Fail(game0, {}, "Game not in progress")
       ELSE IF ~HasPlayer(game, playerId) THEN Fail(game, sim.paths, "Player not found")
       ELSE IF OnCooldown(player, now, TACKLE_COOLDOWN)
       THEN Fail(game, sim.paths, "Tackle cooldown active")
       ELSE IF ~HasPlayer(game, targetPlayerId) THEN Fail(game, sim.paths, "Target player not found")
       ELSE IF targetPlayer.team = player.team THEN Fail(game, sim.paths, "Cannot tackle teammate")
       ELSE IF ~targetPlayer.hasBall THEN Fail(game, sim.paths, "Target doesn't have the ball")
       ELSE IF ~WithinPx(player.position, targetPlayer.position, TACKLE_DISTANCE)
       THEN Fail(game, sim.paths, "Too far to tackle")
       ELSE IF success
       THEN Done([won EXCEPT !.ball.possessionPlayerId = 0,
                             !.ball.velocity = bounce,
                             !.version = @ + 1],
                 "Tackle successful!", paths)
       ELSE Done([stamped EXCEPT !.version = @ + 1], "Tackle failed", paths)


\* ------------------------------------------------------------------- inputs
GameIds == {"game", "unknown"}

PlayersPerTeamChoices == {1}

GoalsToWinChoices == {1, 2}

TeamPreferences == {"none"}

JoinRoles == {"none", "striker"}

MoveTargets == {Pos(Px(600), Px(400)), Pos(Px(1300), Px(400))}

MoveSpeeds == {MIN_PLAYER_SPEED - 1, MAX_PLAYER_SPEED, MAX_PLAYER_SPEED + 1}

PassSpeeds == {NoSpeed, MIN_PASS_SPEED - 1, MAX_PASS_SPEED + 1}

ShootSpeeds == {NoSpeed, MIN_SHOOT_SPEED - 1, MAX_SHOOT_SPEED, MAX_SHOOT_SPEED + 1}

\* (cos a, sin a) * 2 for a in {0, 3pi/2}
Bounces == {Vel(2 * Unit, 0), Vel(0, 0 - 2 * Unit)}

AdvanceSteps == {SIMULATION_STEP, COUNTDOWN_DURATION}

\* one representative of a set of inputs
OneOf(S) == CHOOSE x \in S : TRUE

\* ----------------------------------------------------------------- requests
NoRequest == [op |-> "none", wait |-> 0, player |-> 0, target |-> 0, pos |-> NoPos,
              speed |-> NoSpeed, team |-> "none", role |-> "none",
              success |-> FALSE, bounce |-> Vel(0, 0)]

JoinRequest(team, role) == [NoRequest EXCEPT !.op = "join", !.team = team, !.role = role]

StateRequest == [NoRequest EXCEPT !.op = "state"]

MoveRequest(player, pos, speed) ==
    [NoRequest EXCEPT !.op = "move", !.player = player, !.pos = pos, !.speed = speed]

PassRequest(player, target, speed) ==
    [NoRequest EXCEPT !.op = "pass", !.player = player, !.target = target, !.speed = speed]

ShootRequest(player, speed) ==
    [NoRequest EXCEPT !.op = "shoot", !.player = player, !.speed = speed]

TackleRequest(player, target, success, bounce) ==
    [NoRequest EXCEPT !.op = "tackle", !.player = player, !.target = target,
                      !.success = success, !.bounce = bounce]

After(ms, req) == [req EXCEPT !.wait = ms]

\* A dispatch whose action handlers test the status the catch-up left
HandleCaughtUp(req, game, sim, now, newId) ==
    CASE req.op = "join" -> joinGame(game, now, newId, req.team, req.role)
      [] req.op = "state" -> getGameState(game, sim, now)
      [] req.op = "move" ->
             movePlayer(sim.state, sim, now, req.player, req.pos.x, req.pos.y, req.speed)
      [] req.op = "pass" -> passBall(sim.state, sim, now, req.player, req.target, req.speed)
      [] req.op = "shoot" -> shoot(sim.state, sim, now, req.player, req.speed)
      [] req.op = "tackle" ->
             tackle(sim.state, sim, now, req.player, req.target, req.success, req.bounce)

\* the handler a request reaches, run on the record findOne returned
Handle(req, game, sim, now, newId) ==
    CASE req.op = "join" -> joinGame(game, now, newId, req.team, req.role)
      [] req.op = "state" -> getGameState(game, sim, now)
      [] req.op = "move" ->
             movePlayer(game, sim, now, req.player, req.pos.x, req.pos.y, req.speed)
      [] req.op = "pass" -> passBall(game, sim, now, req.player, req.target, req.speed)
      [] req.op = "shoot" -> shoot(game, sim, now, req.player, req.speed)
      [] req.op = "tackle" ->
             tackle(game, sim, now, req.player, req.target, req.success, req.bounce)

\* what doc.save() leaves in the store: the modified paths, nothing else
Write(stored, paths, doc) ==
    [f \in DOMAIN stored |->
        IF f \in paths THEN doc[f]
        ELSE IF f = "ball" /\ "ball.position" \in paths
        THEN [stored.ball EXCEPT !.position = doc.ball.position]
        ELSE stored[f]]

\* ----------------------------------------------------- matches played so far
\* A world: the stored record, the time and the next fresh player id.  Replay
\* runs a script of requests one after the other, each after its wait, from
\* findOne to the end of save().
NewWorld(playersPerTeam, goalsToWin) ==
    [store |-> createGame(1, playersPerTeam, goalsToWin, StartClock),
     clock |-> StartClock, nextId |-> 2]

\* the world after a call that returned r at time now
Served(world, req, now, r) ==
    [store |-> IF r.saved THEN Write(world.store, r.paths, r.state) ELSE world.store,
     clock |-> now,
     nextId |-> IF req.op = "join" /\ r.ok THEN world.nextId + 1 ELSE world.nextId]

Serve(world, req, now) ==
    Served(world, req, now,
           Handle(req, world.store, simulate(world.store, now), now, world.nextId))

RECURSIVE Replay(_, _)
Replay(world, script) ==
    IF script = <<>> \/ world.clock < StartClock THEN world
    ELSE Replay(Serve(world, Head(script), world.clock + Head(script).wait), Tail(script))

Ticks(n) == [i \in 1 .. n |-> After(SIMULATION_STEP, StateRequest)]

\* One against one.  The creator (player 1, team A striker) fetches the ball at
\* the centre, carries it to the spot in front of team B's goal where B's
\* goalkeeper (player 2) stands, and waits out the shoot cooldown.
AttackScript ==
    <<JoinRequest("none", "none"),
      After(COUNTDOWN_DURATION, StateRequest),
      MoveRequest(1, Pos(Px(600), Px(400)), MAX_PLAYER_SPEED)>>
    \o Ticks(6)
    \o <<MoveRequest(1, Pos(Px(1150), Px(400)), MAX_PLAYER_SPEED)>>
    \o Ticks(20)

\* The same, and then the striker shoots as hard as allowed: one tick later
\* the ball is in flight, one more tick short of team B's goal.
ShotScript ==
    AttackScript \o <<ShootRequest(1, MAX_SHOOT_SPEED)>> \o Ticks(1)

\* Two against two.  Players 2 and 4 join team B, player 3 joins the creator's
\* team A as its goalkeeper; the creator fetches the ball at the centre and
\* waits out the pass cooldown.
PassScript ==
    <<JoinRequest("none", "none"), JoinRequest("none", "none"), JoinRequest("none", "none"),
      After(COUNTDOWN_DURATION, StateRequest),
      MoveRequest(1, Pos(Px(600), Px(400)), MAX_PLAYER_SPEED)>>
    \o Ticks(10)

\* One against one, the creator on the way to the ball at the centre.
RunScript ==
    <<JoinRequest("none", "none"),
      After(COUNTDOWN_DURATION, StateRequest),
      MoveRequest(1, Pos(Px(600), Px(400)), MAX_PLAYER_SPEED)>>
    \o Ticks(2)

\* no call arrives for ms milliseconds
Idle(world, ms) == [world EXCEPT !.clock = @ + ms]

Lobbies == {NewWorld(ppt, OneOf(GoalsToWinChoices)) : ppt \in PlayersPerTeamChoices}

Attacks == {Replay(NewWorld(1, goals), AttackScript) : goals \in GoalsToWinChoices}

Shots == {Replay(NewWorld(1, goals), ShotScript) : goals \in GoalsToWinChoices}

Passes == {Replay(NewWorld(2, OneOf(GoalsToWinChoices)), PassScript)}

\* a simulation step has gone by since the last call
Runs == {Idle(Replay(NewWorld(1, OneOf(GoalsToWinChoices)), RunScript), SIMULATION_STEP)}

\* Two against two, the creator 300 px from its own goalkeeper (player 3, at
\* (50,400)) with the ball at its feet, team B far away, the pass cooldown over.
FeedScript ==
    PassScript
    \o <<MoveRequest(1, Pos(Px(350), Px(400)), MAX_PLAYER_SPEED)>>
    \o Ticks(10)

Feeds == {Replay(NewWorld(2, goals), FeedScript) : goals \in GoalsToWinChoices}

\* One against one.  While the striker waits in front of team B's goal, B's
\* goalkeeper (player 2) walks to the centre spot; then the striker shoots as
\* hard as allowed and one tick later the ball is a tick short of the goal.
GuardScript ==
    AttackScript
    \o <<MoveRequest(2, Pos(Px(600), Px(400)), MAX_PLAYER_SPEED)>>
    \o Ticks(12)
    \o <<ShootRequest(1, MAX_SHOOT_SPEED)>>
    \o Ticks(1)

Guards == {Replay(NewWorld(1, OneOf(GoalsToWinChoices)), GuardScript)}

\* One against one, the creator just arrived on the centre spot: its target is
\* still set, the tick that clears it is the next one.
ArriveScript ==
    <<JoinRequest("none", "none"),
      After(COUNTDOWN_DURATION, StateRequest),
      MoveRequest(1, Pos(Px(600), Px(400)), MAX_PLAYER_SPEED)>>
    \o Ticks(6)

Arrivals == {Replay(NewWorld(1, OneOf(GoalsToWinChoices)), ArriveScript)}

\* Two-a-side lobbies still waiting: just created, and after a join that
\* asked for the creator's team.
Gatherings ==
    {NewWorld(2, OneOf(GoalsToWinChoices)),
     Replay(NewWorld(2, OneOf(GoalsToWinChoices)), <<JoinRequest("A", "none")>>)}

\* Two against two, the creator with the ball at its feet on the very spot of
\* its own goalkeeper (player 3, at (50,400)), the pass cooldown over.
Huddles ==
    {Replay(NewWorld(2, OneOf(GoalsToWinChoices)),
            FeedScript \o <<MoveRequest(1, Pos(Px(50), Px(400)), MAX_PLAYER_SPEED)>>
                       \o Ticks(12))}

\* A six-a-side lobby after four joins that left team and role open: team A
\* holds the creator, a goalkeeper and a defender, team B a goalkeeper and a
\* defender.
Leagues ==
    {Replay(NewWorld(6, OneOf(GoalsToWinChoices)),
            [i \in 1 .. 4 |-> JoinRequest("none", "none")])}

Matches == Lobbies \cup Attacks \cup Shots \cup Passes \cup Guards \cup Arrivals
           \cup Huddles

\* -------------------------------------------------------------------- state
VARIABLES
    store,      \* the stored record of game "game"
    clock,      \* Date.now()
    nextId,     \* the next player id uuidv4() hands out
    budget,     \* play time left to explore, ms
    acts,       \* player actions accepted since the start
    calls,      \* per request slot: where the call stands and what it returned
    pending,    \* per request slot: the write save() has in flight
    stream      \* the subscription to the game's snapshots

vars == <<store, clock, nextId, budget, acts, calls, pending, stream>>

Slots == 1 .. MaxCalls

\* A subscription: where its loop stands, when it started, when its timer
\* fires, and of the snapshots it has sent their number, the time of the last
\* one and the time of the first one that showed a finished game (0: none)
NoStream == [pc |-> "idle", started |-> 0, wake |-> 0, count |-> 0, last |-> 0, over |-> 0]

NoCall == [pc |-> "idle", op |-> "none", ok |-> FALSE, req |-> NoRequest,
           now |-> 0, base |-> 0]

NoWrite == [paths |-> {}, state |-> <<>>]

\* ids a caller may name: every id handed out so far and one never handed out
KnownIds == 1 .. nextId

Start(worlds, limit) ==
    /\ \E w \in worlds : store = w.store /\ clock = w.clock /\ nextId = w.nextId
    /\ budget = limit
    /\ acts = 0
    /\ calls = [c \in Slots |-> NoCall]
    /\ pending = [c \in Slots |-> NoWrite]
    /\ stream = NoStream

\* What simulate would do to the stored record now
Simulated == simulate(store, clock)

\* What is kept of the call in slot c: of an accepted call the request, the
\* time and the version it loaded; of a refused call its operation, when calls
\* run one at a time, and nothing when they overlap.
Reply(c, req, res, atomic) ==
    IF res.ok
    THEN [NoCall EXCEPT !.op = req.op, !.ok = TRUE, !.req = req, !.now = clock,
                        !.base = store.version]
    ELSE IF atomic THEN [NoCall EXCEPT !.op = req.op]
    ELSE calls[c]

\* The handler computed res.  atomic: its save completes before any other call
\* runs; otherwise the write stays in flight until Save.  A call takes the
\* lowest slot with no write in flight.  At most MaxActions player actions are
\* accepted.
Return(c, req, res, ret, atomic) ==
    /\ calls[c].pc # "saving"
    /\ \A s \in 1 .. c - 1 : calls[s].pc = "saving"
    /\ (res.ok /\ req.op \in {"move", "pass", "shoot", "tackle"}) => acts < MaxActions
    /\ IF res.saved /\ ~atomic
       THEN /\ calls' = [calls EXCEPT ![c] = [ret EXCEPT !.pc = "saving"]]
            /\ pending' = [pending EXCEPT ![c] = [paths |-> res.paths, state |-> res.state]]
            /\ UNCHANGED store
       ELSE /\ calls' = [calls EXCEPT ![c] = IF res.ok \/ atomic
                                              THEN [ret EXCEPT !.pc = "done"]
                                              ELSE calls[c]]
            /\ pending' = pending
            /\ store' = IF res.saved THEN Write(store, res.paths, res.state) ELSE store
    /\ nextId' = IF req.op = "join" /\ res.ok THEN nextId + 1 ELSE nextId
    /\ acts' = IF res.ok /\ req.op \in {"move", "pass", "shoot", "tackle"}
               THEN acts + 1 ELSE acts
    /\ UNCHANGED <<clock, budget, stream>>

Answer(c, req, res, atomic) == Return(c, req, res, Reply(c, req, res, atomic), atomic)

\* A handler runs from findOne to the point where it returns or awaits save().
Call(c, gameId, req, sim, atomic) ==
    Answer(c, req,
           IF gameId = "game" THEN Handle(req, store, sim, clock, nextId)
           ELSE Fail(store, {}, "Game not found"),
           atomic)

\* uuidv4() is fresh on every call; an id is used up when the join succeeds
DoJoinGame(c, atomic) ==
    LET sim == Simulated IN
    \E gameId \in GameIds, teamPreference \in TeamPreferences, role \in JoinRoles :
        /\ gameId # "game" => teamPreference = OneOf(TeamPreferences) /\ role = OneOf(JoinRoles)
        /\ Call(c, gameId, JoinRequest(teamPreference, role), sim, atomic)

DoGetGameState(c, atomic) ==
    LET sim == Simulated IN
    \E gameId \in GameIds : Call(c, gameId, StateRequest, sim, atomic)

DoMovePlayer(c, atomic) ==
    LET sim == Simulated IN
    \E gameId \in GameIds, playerId \in KnownIds, t \in MoveTargets, speed \in MoveSpeeds :
        /\ gameId # "game" => playerId = 1 /\ t = OneOf(MoveTargets) /\ speed = OneOf(MoveSpeeds)
        /\ Call(c, gameId, MoveRequest(playerId, t, speed), sim, atomic)

DoPassBall(c, atomic) ==
    LET sim == Simulated IN
    \E gameId \in GameIds, playerId \in KnownIds, targetPlayerId \in KnownIds,
       speed \in PassSpeeds :
        /\ gameId # "game" => playerId = 1 /\ targetPlayerId = 1 /\ speed = OneOf(PassSpeeds)
        /\ Call(c, gameId, PassRequest(playerId, targetPlayerId, speed), sim, atomic)

DoShoot(c, atomic) ==
    LET sim == Simulated IN
    \E gameId \in GameIds, playerId \in KnownIds, speed \in ShootSpeeds :
        /\ gameId # "game" => playerId = 1 /\ speed = OneOf(ShootSpeeds)
        /\ Call(c, gameId, ShootRequest(playerId, speed), sim, atomic)

\* Math.random() decides the outcome; the bounce direction matters on success only
DoTackle(c, atomic) ==
    LET sim == Simulated IN
    \E gameId \in GameIds, playerId \in KnownIds, targetPlayerId \in KnownIds,
       success \in BOOLEAN, bounce \in Bounces :
        /\ gameId # "game" => playerId = 1 /\ targetPlayerId = 1 /\ success
        /\ ~success => bounce = OneOf(Bounces)
        /\ Call(c, gameId, TackleRequest(playerId, targetPlayerId, success, bounce), sim, atomic)

\* Time passes between calls: a simulation step while the budget lasts, or the
\* whole countdown at once while it is still running.
Advance ==
    /\ \E d \in AdvanceSteps :
           /\ IF d = COUNTDOWN_DURATION
              THEN /\ store.status = "countdown"
                   /\ clock < store.countdownStartTime + COUNTDOWN_DURATION
                   /\ budget' = budget
              ELSE /\ d <= budget
                   /\ budget' = budget - d
           /\ clock' = clock + d
    /\ UNCHANGED <<store, nextId, acts, calls, pending, stream>>

\* ------------------------------------------ calls one at a time (SpecSerial)
InitSerial == Start(Matches, Horizon)

SerialJoinGame == DoJoinGame(1, TRUE)

SerialGetGameState == DoGetGameState(1, TRUE)

SerialMovePlayer == DoMovePlayer(1, TRUE)

SerialPassBall == DoPassBall(1, TRUE)

SerialShoot == DoShoot(1, TRUE)

SerialTackle == DoTackle(1, TRUE)

NextSerial ==
    \/ SerialJoinGame
    \/ SerialGetGameState
    \/ SerialMovePlayer
    \/ SerialPassBall
    \/ SerialShoot
    \/ SerialTackle
    \/ Advance

SpecSerial == InitSerial /\ [][NextSerial]_vars

\* ------------------------------------- calls in flight together (Spec)
Init == Start(Lobbies \cup Attacks \cup Runs, HorizonC)

JoinGame(c) == DoJoinGame(c, FALSE)

GetGameState(c) == DoGetGameState(c, FALSE)

MovePlayer(c) == DoMovePlayer(c, FALSE)

PassBall(c) == DoPassBall(c, FALSE)

Shoot(c) == DoShoot(c, FALSE)

Tackle(c) == DoTackle(c, FALSE)

\* `await game.save()` completes: the write lands whatever the store holds now
Save(c) ==
    /\ calls[c].pc = "saving"
    /\ store' = Write(store, pending[c].paths, pending[c].state)
    /\ calls' = [calls EXCEPT ![c].pc = "done"]
    /\ pending' = [pending EXCEPT ![c] = NoWrite]
    /\ UNCHANGED <<clock, nextId, budget, acts, stream>>

Next ==
    \/ \E c \in Slots :
           \/ JoinGame(c)
           \/ GetGameState(c)
           \/ MovePlayer(c)
           \/ PassBall(c)
           \/ Shoot(c)
           \/ Tackle(c)
           \/ Save(c)
    \/ Advance

Spec == Init /\ [][Next]_vars

\* ------------------------------------------------------------ possession
\* ------------------- one pass, then the state polled every step (SpecPass)
InitPass == Start(Feeds, HorizonP)

\* the creator passes to its goalkeeper at the default speed
FeedPass ==
    /\ acts = 0
    /\ Call(1, "game", PassRequest(1, 3, NoSpeed), Simulated, TRUE)

\* a simulation step later a client calls getGameState
Poll ==
    /\ acts > 0
    /\ budget >= SIMULATION_STEP
    /\ store' = Serve([store |-> store, clock |-> clock, nextId |-> nextId],
                      StateRequest, clock + SIMULATION_STEP).store
    /\ clock' = clock + SIMULATION_STEP
    /\ budget' = budget - SIMULATION_STEP
    /\ calls' = [calls EXCEPT ![1] = [NoCall EXCEPT !.pc = "done", !.op = "state",
                                                     !.ok = TRUE, !.req = StateRequest,
                                                     !.now = clock + SIMULATION_STEP,
                                                     !.base = store.version]]
    /\ UNCHANGED <<nextId, acts, pending, stream>>

NextPass == FeedPass \/ Poll

SpecPass == InitPass /\ [][NextPass]_vars /\ WF_vars(NextPass)

\* ------------- one action, then the state polled every step (SpecOnce)
\* One against one with the creator holding the ball: at the centre, its
\* cooldowns over and team B's goalkeeper 550 px away, or in front of team B's
\* goal on the goalkeeper's spot; and two against two, the creator holding
\* the ball at the centre.
InitOnce ==
    Start({Replay(w, Ticks(20)) : w \in Arrivals} \cup Attacks \cup Passes, HorizonR)

\* the action a player opens with
Open ==
    /\ acts = 0
    /\ \E req \in {ShootRequest(1, MIN_SHOOT_SPEED + 16),
                    ShootRequest(1, MAX_SHOOT_SPEED),
                    PassRequest(1, 3, NoSpeed),
                    TackleRequest(2, 1, TRUE, Vel(2 * Unit, 0)),
                    MoveRequest(1, Pos(Px(1300), Px(400)), MAX_PLAYER_SPEED),
                    MoveRequest(1, Pos(Px(300), Px(100)), PLAYER_SPEED)} :
           Call(1, "game", req, Simulated, TRUE)

NextOnce == Open \/ Poll

\* Clients keep calling: WF_vars(NextOnce), with ENABLED <<NextOnce>>_vars
\* written out (an action to open with is at hand, or budget is left to poll)
SpecOnce ==
    /\ InitOnce
    /\ [][NextOnce]_vars
    /\ ([]<>~(acts = 0 \/ budget >= SIMULATION_STEP) \/ []<><<NextOnce>>_vars)

\* ------------------------------ the lobby, calls one at a time (SpecLobby)
InitLobby == Start(Lobbies \cup Gatherings \cup Leagues, Horizon)

NextLobby == SerialJoinGame \/ SerialGetGameState \/ Advance

SpecLobby == InitLobby /\ [][NextLobby]_vars

\* ------------------------------------- the snapshot stream (SpecStream)
TICK_MS == 250

MAX_DURATION_MS == 30000

GRACE_MS == 5000

\* One against one, one goal to win, the shot in: the game is finished.
Finals == {Replay(NewWorld(1, 1), ShotScript \o Ticks(2))}

InitStream == Start(Lobbies \cup Shots \cup Finals, 0)

\* the stored record after getGameState, called at time now
Polled(now) ==
    Serve([store |-> store, clock |-> clock, nextId |-> nextId], StateRequest, now).store

\* controller.enqueue of a snapshot with that status at time now
Snapshot(s, now, status) ==
    [s EXCEPT !.count = @ + 1,
              !.last = now,
              !.over = IF @ = 0 /\ status = "finished" THEN now ELSE @]

\* start(): the init snapshot, then loop() is called at once; an unknown game
\* gets an error event and the stream is closed
Opened(after) ==
    /\ store' = after
    /\ stream' = [Snapshot(stream, clock, after.status)
                     EXCEPT !.pc = "loop", !.started = clock, !.wake = clock]

Subscribe ==
    /\ stream.pc = "idle"
    /\ \E gameId \in GameIds :
           IF gameId = "game" THEN Opened(Polled(clock))
           ELSE store' = store /\ stream' = [stream EXCEPT !.pc = "closed"]
    /\ UNCHANGED <<clock, nextId, budget, acts, calls, pending>>

\* the update snapshot of a loop iteration with that status, then either the
\* 5 s close timer (game finished) or the next loop() after TICK_MS
Updated(s, now, status) ==
    IF status = "finished"
    THEN [Snapshot(s, now, status) EXCEPT !.pc = "grace", !.wake = now + GRACE_MS]
    ELSE [Snapshot(s, now, status) EXCEPT !.pc = "loop", !.wake = now + TICK_MS]

\* An update enqueued although the client has gone
EnqueuedAnyway(s, now, status) == Updated(s, now, status)

\* the client has gone: controller.enqueue throws on the cancelled stream, in
\* the try block and again in the catch block, so the iteration ends without
\* a snapshot and without setting the next timer
Dropped(s, now, status) == [s EXCEPT !.pc = "cancelled"]

\* the loop timer fires: within the session budget loop() calls getGameState
\* and waits for it
Loop ==
    /\ stream.pc = "loop"
    /\ clock' = stream.wake
    /\ IF stream.wake - stream.started > MAX_DURATION_MS
       THEN store' = store /\ stream' = [stream EXCEPT !.pc = "closed"]
       ELSE store' = Polled(stream.wake) /\ stream' = [stream EXCEPT !.pc = "await"]
    /\ UNCHANGED <<nextId, budget, acts, calls, pending>>

\* getGameState has returned to the waiting iteration
Resume ==
    /\ stream.pc \in {"await", "orphan"}
    /\ stream' = IF stream.pc = "orphan" THEN Dropped(stream, clock, store.status)
                 ELSE Updated(stream, clock, store.status)
    /\ UNCHANGED <<store, clock, nextId, budget, acts, calls, pending>>

\* the close timer set after a finished snapshot fires
GraceOver ==
    /\ stream.pc = "grace"
    /\ clock' = stream.wake
    /\ stream' = [stream EXCEPT !.pc = "closed"]
    /\ UNCHANGED <<store, nextId, budget, acts, calls, pending>>

\* cancel(): the client goes away; the timers still set find closed = true,
\* an iteration waiting for getGameState is left to return (pc "orphan")
Cancel ==
    /\ stream.pc \in {"loop", "grace", "await"}
    /\ stream' = [stream EXCEPT !.pc = IF @ = "await" THEN "orphan" ELSE "cancelled"]
    /\ UNCHANGED <<store, clock, nextId, budget, acts, calls, pending>>

NextStream == Subscribe \/ Loop \/ Resume \/ GraceOver \/ Cancel

SpecStream == InitStream /\ [][NextStream]_vars /\ WF_vars(NextStream)

Holders == {i \in DOMAIN allPlayers(store) : allPlayers(store)[i].hasBall}

\* C1: calls running one at a time, at most one player of the two rosters has
\* hasBall, and a player has hasBall exactly when ball.possessionPlayerId is
\* that player's id.
SinglePossessor ==
    /\ Cardinality(Holders) <= 1
    /\ \A i \in DOMAIN allPlayers(store) :
           allPlayers(store)[i].hasBall
               <=> store.ball.possessionPlayerId = allPlayers(store)[i].id

\* A player passed the ball, and a tick later a player holds it again.
SinglePossessorWitness ==
    /\ Holders # {}
    /\ \E i \in DOMAIN allPlayers(store) : allPlayers(store)[i].stats.passes > 0

\* -------------------------------------------------------- the win condition
ReachedIn(state, team) ==
    (IF team = "A" THEN state.score.teamA ELSE state.score.teamB) >= state.config.goalsToWin

Reached(team) == ReachedIn(store, team)

WinState ==
    /\ store.winner # "none" <=> store.status = "finished"
    /\ store.score.teamA <= store.config.goalsToWin
    /\ store.score.teamB <= store.config.goalsToWin
    /\ \A team \in {"A", "B"} :
           Reached(team) => /\ store.status = "finished"
                            /\ store.winner = team
                            /\ store.finishedAt # 0

\* the call that finishes the match stamps finishedAt with its own time
WinTick ==
    (store.status # "finished" /\ store'.status = "finished")
        => store'.finishedAt = clock /\ ReachedIn(store', store'.winner)

\* C5: the tick in which a score reaches goalsToWin sets status finished, the
\* winner and finishedAt; winner is set exactly when the status is finished;
\* no score exceeds goalsToWin.
WinCondition == []WinState /\ [][WinTick]_vars

\* The match is won.
WinConditionWitness == store.status = "finished" /\ Reached(store.winner)

\* C6: no move, pass, shoot or tackle is accepted once the record it works on
\* is finished, the call whose own catch-up tick scores the winning goal
\* included.
FinishedFrozen == [][acts' # acts => store'.status # "finished"]_vars

\* ------------------------------------------------------------------ catch-up
TickOnce(state) == simulate(state, state.lastUpdate + SIMULATION_STEP).state

RECURSIVE Ticked(_, _)
Ticked(state, n) == IF n = 0 THEN state ELSE TickOnce(Ticked(state, n - 1))

\* C7: one call of simulate after k simulation steps of time leaves the world
\* that k calls, one simulation step apart, leave.
CatchUpEqualsTicks ==
    \A k \in 1 .. MaxGap :
        simulate(store, store.lastUpdate + k * SIMULATION_STEP).state = Ticked(store, k)

\* ------------------------------------------------------------------- version
\* a field other than the two bookkeeping fields differs
WorldChanged(before, after) ==
    \E f \in DOMAIN before \ {"version", "lastUpdate"} : before[f] # after[f]

\* the step is a getGameState call
TickCall == clock' = clock /\ acts' = acts /\ calls'[1].ok /\ calls'[1].op = "state"

\* the step is a refused move, pass, shoot or tackle
Refusal ==
    /\ clock' = clock
    /\ ~calls'[1].ok
    /\ calls'[1].op \in {"move", "pass", "shoot", "tackle"}

\* C8: a tick that changes the world adds exactly 1 to version, a tick that
\* changes nothing and a refused action add nothing, an accepted action with
\* no tick due adds exactly 1.
VersionAccounting ==
    [][/\ TickCall => store'.version
                        = store.version + (IF WorldChanged(store, store') THEN 1 ELSE 0)
       /\ Refusal => store'.version = store.version
       /\ (acts' # acts /\ clock - store.lastUpdate < SIMULATION_STEP)
              => store'.version = store.version + 1]_vars

\* C10: a refused move, pass, shoot or tackle leaves the stored record as it
\* was, in every field.
NoPartialEffects == [][Refusal => store' = store]_vars

\* An action was refused while a tick was due: the tick the handler ran on its
\* copy of the record is not in the store.
NoPartialEffectsWitness ==
    /\ calls[1].pc = "done"
    /\ ~calls[1].ok
    /\ calls[1].op \in {"move", "pass", "shoot", "tackle"}
    /\ store.status = "playing"
    /\ clock - store.lastUpdate >= SIMULATION_STEP

\* -------------------------------------------------- overlapping calls
\* C2: a save whose call loaded a version the store no longer holds is
\* rejected: it leaves the stored record as it is.
StaleSaveRejected ==
    [][\A c \in Slots :
           (calls[c].pc = "saving" /\ calls'[c].pc = "done"
                /\ store.version # calls[c].base)
               => store' = store]_vars

\* the move of slot c is in the stored record
MoveStored(c) ==
    /\ HasPlayer(store, calls[c].req.player)
    /\ PlayerById(store, calls[c].req.player).targetPosition = ClampPlayer(calls[c].req.pos)
    /\ PlayerById(store, calls[c].req.player).lastActionTime = calls[c].now

\* two accepted moves of different players that loaded the same version
MovesOverlapped(c, d) ==
    /\ calls[c].pc = "done" /\ calls[c].ok /\ calls[c].op = "move"
    /\ calls[d].pc = "done" /\ calls[d].ok /\ calls[d].op = "move"
    /\ calls[c].req.player # calls[d].req.player
    /\ calls[c].base = calls[d].base
    /\ calls[c].now = calls[d].now

\* C3: once two overlapping moves of different players have both returned
\* success, the stored record holds both players' targetPosition and
\* lastActionTime.
NoLostMove ==
    \A c, d \in Slots : MovesOverlapped(c, d) => MoveStored(c) /\ MoveStored(d)

\* C4: the stored status changes only along waiting -> countdown -> playing ->
\* finished, one step at a time.
StatusLifecycle ==
    [][store'.status # store.status
           => <<store.status, store'.status>>
                  \in {<<"waiting", "countdown">>, <<"countdown", "playing">>,
                       <<"playing", "finished">>}]_vars

\* C9: the stored version never decreases, whichever way getGameState, move,
\* pass, shoot and tackle calls on the game overlap.
VersionMonotone ==
    [][(\A c \in Slots : calls[c].op # "join" /\ calls'[c].op # "join")
           => store'.version >= store.version]_vars

\* ------------------------------------------------------------------ cooldown
\* the step is an accepted move
MoveAccepted == acts' # acts /\ calls'[1].ok /\ calls'[1].op = "move"

\* an accepted move stamps its player with the time of the call and sets the
\* clamped target
MoveStamps ==
    MoveAccepted =>
        /\ PlayerById(store', calls'[1].req.player).lastActionTime = clock
        /\ PlayerById(store', calls'[1].req.player).targetPosition
               = ClampPlayer(calls'[1].req.pos)

\* the player was stamped less than MOVE_COOLDOWN ago
InMoveCooldown(player) ==
    player.lastActionTime # 0 /\ clock - player.lastActionTime < MOVE_COOLDOWN

\* what movePlayer answers a new intent of the player now
Retry(player, t, speed) == movePlayer(store, Simulated, clock, player.id, t.x, t.y, speed)

\* every new intent of a player inside the cooldown is refused with the
\* cooldown error and nothing is saved
MoveHeldBack ==
    store.status = "playing" =>
        \A i \in DOMAIN allPlayers(store) :
            InMoveCooldown(allPlayers(store)[i]) =>
                \A t \in MoveTargets, speed \in MoveSpeeds \cup {NoSpeed} :
                    /\ ~Retry(allPlayers(store)[i], t, speed).ok
                    /\ Retry(allPlayers(store)[i], t, speed).msg = "Move cooldown active"
                    /\ ~Retry(allPlayers(store)[i], t, speed).saved

\* C11: after a move accepted at time t, a move of the same player before
\* t + MOVE_COOLDOWN fails with the cooldown error and the stored
\* targetPosition stays the one the first move set.
CooldownEnforced == []MoveHeldBack /\ [][MoveStamps]_vars

\* A move was refused while its player's accepted move was less than
\* MOVE_COOLDOWN old, and the target of that move is still stored.
CooldownEnforcedWitness ==
    /\ store.status = "playing"
    /\ calls[1].pc = "done" /\ calls[1].op = "move" /\ ~calls[1].ok
    /\ \E i \in DOMAIN allPlayers(store) :
           /\ InMoveCooldown(allPlayers(store)[i])
           /\ clock > allPlayers(store)[i].lastActionTime
           /\ allPlayers(store)[i].targetPosition \in MoveTargets

\* -------------------------------------------------------------- speed bounds
OutOfBounds(speed, lo, hi) == speed # NoSpeed /\ (speed < lo \/ speed > hi)

\* the handler refused and did not save
Refused(res) == ~res.ok /\ ~res.saved

\* whoever asks and whatever else the request says, a speed outside the
\* bounds of the action is refused and nothing is saved
BadSpeedRefused ==
    \A playerId \in KnownIds :
        /\ \A t \in MoveTargets, speed \in MoveSpeeds :
               OutOfBounds(speed, MIN_PLAYER_SPEED, MAX_PLAYER_SPEED)
                   => Refused(movePlayer(store, Simulated, clock, playerId, t.x, t.y, speed))
        /\ \A targetPlayerId \in KnownIds, speed \in PassSpeeds :
               OutOfBounds(speed, MIN_PASS_SPEED, MAX_PASS_SPEED)
                   => Refused(passBall(store, Simulated, clock, playerId, targetPlayerId, speed))
        /\ \A speed \in ShootSpeeds :
               OutOfBounds(speed, MIN_SHOOT_SPEED, MAX_SHOOT_SPEED)
                   => Refused(shoot(store, Simulated, clock, playerId, speed))

\* the speed of an accepted move, pass or shoot is within the bounds
AcceptedSpeed ==
    (acts' # acts /\ calls'[1].ok) =>
        /\ calls'[1].op = "move"
               => ~OutOfBounds(calls'[1].req.speed, MIN_PLAYER_SPEED, MAX_PLAYER_SPEED)
        /\ calls'[1].op = "pass"
               => ~OutOfBounds(calls'[1].req.speed, MIN_PASS_SPEED, MAX_PASS_SPEED)
        /\ calls'[1].op = "shoot"
               => ~OutOfBounds(calls'[1].req.speed, MIN_SHOOT_SPEED, MAX_SHOOT_SPEED)

\* C12: a move, pass or shoot with a speed outside the bounds of the action
\* is rejected and the stored record, the player's speed, targetPosition,
\* lastActionTime, the version and the possession included, does not change.
SpeedBounds == []BadSpeedRefused /\ [][AcceptedSpeed /\ (Refusal => store' = store)]_vars

\* A shoot was refused in a state where the holder's shot was refused for its
\* speed alone; a move of a player off cooldown was refused for its speed; the
\* holder still has the ball.
SpeedBoundsWitness ==
    /\ store.status = "playing"
    /\ calls[1].pc = "done" /\ calls[1].op = "shoot" /\ ~calls[1].ok
    /\ \E playerId \in KnownIds :
           /\ shoot(store, Simulated, clock, playerId, MAX_SHOOT_SPEED + 1).msg = "Speed too high"
           /\ movePlayer(store, Simulated, clock, playerId, Px(600), Px(400),
                         MIN_PLAYER_SPEED - 1).msg = "Speed too low"
           /\ PlayerById(store, playerId).hasBall
           /\ store.ball.possessionPlayerId = playerId

\* ------------------------------------------------------ the ball after a pass
\* the record after the players loop and the flight of the free ball, before
\* the goal check and the claim
Flown(state) == [Locomotion(state).state EXCEPT !.ball = BallFlight(@)]

\* the record one tick later
NextTick(state) == simulate(state, state.lastUpdate + SIMULATION_STEP).state

\* ids of the players within POSSESSION_DISTANCE of the ball
Near(state) ==
    {allPlayers(state)[i].id : i \in {j \in DOMAIN allPlayers(state) :
                                          CanClaim(state, allPlayers(state)[j])}}

\* the ball is free, moves faster than the nearly-stopped threshold after this
\* tick's flight, and is not in a goal
InFlight(state) ==
    /\ state.status = "playing"
    /\ state.ball.possessionPlayerId = 0
    /\ Hypot(Flown(state).ball.velocity.vx, Flown(state).ball.velocity.vy) > Unit \div 2
    /\ ~InLeftGoal(Flown(state).ball.position)
    /\ ~InRightGoal(Flown(state).ball.position)

\* C13: in a tick where the ball is free and faster than the nearly-stopped
\* threshold and the player who touched it last is the only player within
\* POSSESSION_DISTANCE of it, that player does not get possession and the ball
\* keeps its velocity.
NoPrematureReclaim ==
    (InFlight(store) /\ store.ball.lastTouchPlayerId # 0
                     /\ Near(Flown(store)) = {store.ball.lastTouchPlayerId})
        => /\ NextTick(store).ball.possessionPlayerId # store.ball.lastTouchPlayerId
           /\ NextTick(store).ball.velocity = Flown(store).ball.velocity

\* the player is of the other team than the player who touched the ball last
Opposing(state, player) ==
    /\ HasPlayer(state, state.ball.lastTouchPlayerId)
    /\ player.id # state.ball.lastTouchPlayerId
    /\ player.team # PlayerById(state, state.ball.lastTouchPlayerId).team

\* the player holds the ball, which is at rest
Holds(state, id) ==
    /\ state.ball.possessionPlayerId = id
    /\ PlayerById(state, id).hasBall
    /\ state.ball.velocity = Vel(0, 0)

\* C14: in a tick where the ball is free and moving, an opposing player other
\* than the last toucher who is within POSSESSION_DISTANCE of the ball after
\* its move holds possession at the end of the tick, the ball at rest.
Interception ==
    InFlight(store) =>
        \A i \in DOMAIN allPlayers(store) :
            (/\ Opposing(store, allPlayers(store)[i])
             /\ CanClaim(Flown(store), allPlayers(Flown(store))[i]))
                => Holds(NextTick(store), allPlayers(store)[i].id)

\* ------------------------------------------------------------ the pass lands
\* C15: after the pass of the stationary creator to its stationary goalkeeper
\* 300 px away at the default PASS_SPEED, nobody else near, repeated ticks
\* lead to the goalkeeper holding the ball, and the creator never holds it
\* again on the way.
PassCompletes ==
    /\ [](acts = 1 => store.ball.possessionPlayerId # 1)
    /\ (acts = 1 ~> store.ball.possessionPlayerId = 3)

\* ------------------------------------------------------------ the goal tick
\* the record after the tick: a goal for team, the ball back at the centre
GoalFor(before, after, team) ==
    /\ after.score.teamB = before.score.teamB + (IF team = "B" THEN 1 ELSE 0)
    /\ after.score.teamA = before.score.teamA + (IF team = "A" THEN 1 ELSE 0)
    /\ after.ball.position = Centre
    /\ after.ball.velocity = Vel(0, 0)
    /\ after.ball.possessionPlayerId = 0
    /\ \A i \in DOMAIN allPlayers(after) : ~allPlayers(after)[i].hasBall

Loose(state) == state.status = "playing" /\ state.ball.possessionPlayerId = 0

\* C16: after a tick in which the free ball reaches the x = 0 end line inside
\* the goal band, score.teamB is one higher and score.teamA unchanged, the ball
\* is at the centre with zero velocity and no possessor and no player has
\* hasBall; the same at x = FIELD_WIDTH for score.teamA.
GoalResets ==
    /\ (Loose(store) /\ InLeftGoal(Flown(store).ball.position))
           => GoalFor(store, NextTick(store), "B")
    /\ (Loose(store) /\ InRightGoal(Flown(store).ball.position))
           => GoalFor(store, NextTick(store), "A")

\* ---------------------------------------------------------------- the field
Inside(pos, radius) ==
    /\ Px(radius) <= pos.x /\ pos.x <= Px(FIELD_WIDTH - radius)
    /\ Px(radius) <= pos.y /\ pos.y <= Px(FIELD_HEIGHT - radius)

\* C17: in every reachable state every player is inside the field by
\* PLAYER_RADIUS and the ball by BALL_RADIUS, whatever targets and speeds the
\* calls supplied.
WithinField ==
    /\ \A i \in DOMAIN allPlayers(store) : Inside(allPlayers(store)[i].position, PLAYER_RADIUS)
    /\ Inside(store.ball.position, BALL_RADIUS)

\* a player sent beyond the end line has carried the ball as far as the clamp allows
WithinFieldWitness ==
    \E i \in DOMAIN allPlayers(store) :
        /\ allPlayers(store)[i].position.x = Px(FIELD_WIDTH - PLAYER_RADIUS)
        /\ allPlayers(store)[i].hasBall
        /\ store.ball.position = allPlayers(store)[i].position
        /\ \E t \in MoveTargets : t.x > Px(FIELD_WIDTH) /\ ClampPlayer(t).x = allPlayers(store)[i].position.x

\* ------------------------------------------------------------------ arrival
Arrived(player) == player.targetPosition # NoPos /\ TargetDist(player) <= Unit \div 2

AtRest(player) == player.targetPosition = NoPos \/ Arrived(player)

\* the tick run on a record in play leaves a player at rest where it is, untargeted
StaysPut ==
    store.status = "playing" =>
        \A i \in DOMAIN allPlayers(store) :
            AtRest(allPlayers(store)[i]) =>
                /\ allPlayers(NextTick(store))[i].position = allPlayers(store)[i].position
                /\ allPlayers(NextTick(store))[i].targetPosition = NoPos

\* a step that is not an accepted move of the player keeps it at rest
RestKept ==
    \A i \in DOMAIN allPlayers(store) :
        (/\ store.status = "playing"
         /\ AtRest(allPlayers(store)[i])
         /\ i \in DOMAIN allPlayers(store')
         /\ ~(MoveAccepted /\ calls'[1].req.player = allPlayers(store)[i].id))
            => /\ allPlayers(store')[i].position = allPlayers(store)[i].position
               /\ allPlayers(store)[i].targetPosition = NoPos
                      => allPlayers(store')[i].targetPosition = NoPos
               /\ store'.lastUpdate # store.lastUpdate
                      => allPlayers(store')[i].targetPosition = NoPos

\* C18: once a player is within the 0.5 px epsilon of its target, every later
\* tick without a new move leaves its position unchanged, clears
\* targetPosition and leaves it cleared.
IdempotentArrival == []StaysPut /\ [][RestKept]_vars

\* the creator, arrived on the centre spot with its target set, after the next tick
IdempotentArrivalWitness ==
    \E w \in Arrivals :
        /\ Arrived(PlayerById(w.store, 1))
        /\ store.config = w.store.config
        /\ store.lastUpdate = w.store.lastUpdate + SIMULATION_STEP
        /\ PlayerById(store, 1).targetPosition = NoPos
        /\ PlayerById(store, 1).position = PlayerById(w.store, 1).position

\* ------------------------------------------------------ the simulation clock
ActionAccepted ==
    acts' # acts /\ calls'[1].ok /\ calls'[1].op \in {"move", "pass", "shoot", "tackle"}

\* lastUpdate changes only when a tick was due, and then to the time of the call
ClockOwned ==
    /\ store'.lastUpdate # store.lastUpdate
           => clock - store.lastUpdate >= SIMULATION_STEP /\ store'.lastUpdate = clock
    /\ (ActionAccepted /\ clock - store.lastUpdate < SIMULATION_STEP)
           => store'.lastUpdate = store.lastUpdate

\* the record is as the accepted action in slot 1 saved it
Acted(ops) == calls[1].pc = "done" /\ calls[1].ok /\ calls[1].op \in ops

\* a call arriving a step or more after lastUpdate runs the tick, which moves
\* the ball the action released and the player the action sent off
TickDue ==
    (store.status = "playing" /\ clock - store.lastUpdate >= SIMULATION_STEP) =>
        /\ Simulated.state.lastUpdate = clock
        /\ (Acted({"pass", "shoot", "tackle"}) /\ store.ball.possessionPlayerId = 0)
               => \/ Simulated.state.ball.position = Flown(store).ball.position
                  \/ Simulated.state.score # store.score
        /\ (Acted({"move"}) /\ Moving(PlayerById(store, calls[1].req.player)))
               => TargetDist(PlayerById(StepAll(store), calls[1].req.player))
                      < TargetDist(PlayerById(store, calls[1].req.player))
                  /\ PlayerById(Simulated.state, calls[1].req.player).position
                      = PlayerById(StepAll(store), calls[1].req.player).position

\* C19: lastUpdate is advanced only by the catch-up; an accepted move, pass,
\* shoot or tackle whose catch-up ran no tick saves lastUpdate as loaded, and
\* the next call a SIMULATION_STEP or more after that lastUpdate runs a tick
\* that applies the action's effect.
ClockOwnership == []TickDue /\ [][ClockOwned]_vars

\* a pass saved with no tick run, and a step later the tick is due and moves the ball
ClockOwnershipWitness ==
    /\ store.status = "playing"
    /\ Acted({"pass"})
    /\ calls[1].now = store.lastUpdate
    /\ clock - store.lastUpdate >= SIMULATION_STEP
    /\ store.ball.velocity # Vel(0, 0)
    /\ Simulated.state.ball.position # store.ball.position

\* ------------------------------------------------------- actions need playing
ActionRequests ==
    {MoveRequest(p, t, s) : p \in KnownIds, t \in MoveTargets, s \in MoveSpeeds \cup {NoSpeed}}
    \cup {PassRequest(p, q, s) : p \in KnownIds, q \in KnownIds, s \in PassSpeeds}
    \cup {ShootRequest(p, s) : p \in KnownIds, s \in ShootSpeeds}
    \cup {TackleRequest(p, q, won, b) : p \in KnownIds, q \in KnownIds,
                                        won \in BOOLEAN, b \in Bounces}

BeforeKickOff == store.status \in {"waiting", "countdown"}

NotInProgress(res) == ~res.ok /\ res.msg = "Game not in progress" /\ ~res.saved

\* every action request on a record not yet in play is turned away unsaved
TurnedAway ==
    BeforeKickOff =>
        \A req \in ActionRequests : NotInProgress(Handle(req, store, Simulated, clock, nextId))

\* an action call on such a record leaves the store as it was
LobbyUntouched ==
    (/\ BeforeKickOff
     /\ calls' # calls
     /\ calls'[1].op \in {"move", "pass", "shoot", "tackle"})
        => store' = store /\ ~calls'[1].ok

\* C20: every move, pass, shoot or tackle call made while the stored status is
\* waiting or countdown fails with "Game not in progress" and changes nothing.
ActionsNeedPlaying == []TurnedAway /\ [][LobbyUntouched]_vars

\* a move turned away in a countdown that has run out but is still stored
ActionsNeedPlayingWitness ==
    /\ store.status = "countdown"
    /\ clock >= store.countdownStartTime + COUNTDOWN_DURATION
    /\ Simulated.state.status = "playing"
    /\ calls[1].pc = "done" /\ calls[1].op = "move" /\ ~calls[1].ok

\* ----------------------------------------------------------------- kick-off
RostersFull(state) ==
    /\ Len(state.teamA) >= state.config.playersPerTeam
    /\ Len(state.teamB) >= state.config.playersPerTeam

RosterCap(state) ==
    /\ Len(state.teamA) <= state.config.playersPerTeam
    /\ Len(state.teamB) <= state.config.playersPerTeam

\* what a join leaves: one player more, the countdown started and stamped
\* exactly when that player fills the second roster
Joined(before, after, now) ==
    /\ before.status = "waiting"
    /\ Len(after.teamA) + Len(after.teamB) = Len(before.teamA) + Len(before.teamB) + 1
    /\ RosterCap(after)
    /\ IF RostersFull(after)
       THEN after.status = "countdown" /\ after.countdownStartTime = now
       ELSE after.status = "waiting" /\ after.countdownStartTime = 0

\* every join request on the stored record, each team preference included
JoinAnswers ==
    {joinGame(store, clock, nextId, teamPreference, role) :
         teamPreference \in {"none", "A", "B"}, role \in JoinRoles}

JoinGuarded ==
    /\ RosterCap(store)
    /\ \A res \in JoinAnswers :
           /\ store.status # "waiting" => ~res.ok /\ ~res.saved
           /\ res.ok => res.saved /\ Joined(store, res.state, clock)

\* an accepted join is the one call that uses up a player id
JoinStored == nextId' # nextId => Joined(store, store', clock)

\* C21: a join is accepted only while the status is waiting; the join that
\* fills both rosters to playersPerTeam sets the status to countdown and stamps
\* countdownStartTime in the same save, no earlier join does, and no roster
\* ever holds more than playersPerTeam players.
JoinKickOff == []JoinGuarded /\ [][JoinStored]_vars

\* a two-a-side game in countdown, its fourth player just joined
JoinKickOffWitness ==
    /\ store.config.playersPerTeam = 2
    /\ Len(store.teamA) = 2 /\ Len(store.teamB) = 2
    /\ store.status = "countdown"
    /\ calls[1].pc = "done" /\ calls[1].op = "join" /\ calls[1].ok
    /\ store.countdownStartTime = calls[1].now

\* --------------------------------------------------------- the subscription
Emits == stream'.count # stream.count

\* the first snapshot comes with the subscription, each later one an interval
\* after the one before
EmitSpacing ==
    Emits => IF stream.count = 0 THEN clock' = clock
             ELSE clock' - stream.last = TICK_MS

\* after the first finished snapshot nothing more is sent, and the stream
\* closes a grace period after it
StopsWhenFinished ==
    stream.over # 0 =>
        /\ ~Emits
        /\ (stream.pc # "closed" /\ stream'.pc = "closed") => clock' = stream.over + GRACE_MS

\* nothing is sent past the session budget
WithinBudget == stream.last - stream.started <= MAX_DURATION_MS

\* C22: a subscription sends one snapshot immediately and then one per
\* interval, and always ends: it closes once its elapsed time exceeds the
\* 30 s session budget, and it stops sending and closes a grace period after
\* the first snapshot it sends whose status is finished.
SubscribeSession ==
    /\ [][EmitSpacing /\ StopsWhenFinished]_vars
    /\ []WithinBudget
    /\ <>(stream.pc \in {"closed", "cancelled"})

\* ------------------------------------------------------- the possessed ball
\* C23: at the end of every tick that leaves ball.possessionPlayerId set, the
\* tick of the claim included, the ball's velocity is zero and the ball is
\* where its possessor is.
PossessedBallAtFeet ==
    (store.status = "playing" /\ NextTick(store).ball.possessionPlayerId # 0) =>
        /\ NextTick(store).ball.velocity = Vel(0, 0)
        /\ HasPlayer(NextTick(store), NextTick(store).ball.possessionPlayerId)
        /\ NextTick(store).ball.position
               = PlayerById(NextTick(store), NextTick(store).ball.possessionPlayerId).position

\* -------------------------------------------------------------------- stats
NoLess(before, after) ==
    /\ after.goals >= before.goals
    /\ after.assists >= before.assists
    /\ after.passes >= before.passes
    /\ after.tackles >= before.tackles

\* C24: for every player, none of stats.goals, stats.assists, stats.passes and
\* stats.tackles in the stored record ever decreases, whatever the sequence of
\* ticks and actions, calls in flight together included.
StatsMonotone ==
    [][\A id \in KnownIds :
           (HasPlayer(store, id) /\ HasPlayer(store', id))
               => NoLess(PlayerById(store, id).stats, PlayerById(store', id).stats)]_vars

\* ------------------------------------------------- catch-up before validation
\* C25: every action handler runs the catch-up first and tests the status of
\* the caught-up record, so an action arriving when the stored status is
\* countdown but COUNTDOWN_DURATION has passed since countdownStartTime meets
\* a game in play and is not turned away as not in progress.
CatchUpFirst ==
    \A req \in ActionRequests :
        Simulated.state.status = "playing"
            => Handle(req, store, Simulated, clock, nextId).msg # "Game not in progress"

\* ------------------------------------------------- no claim in a goal tick
GoalTick(state) ==
    /\ Loose(state)
    /\ InLeftGoal(Flown(state).ball.position) \/ InRightGoal(Flown(state).ball.position)

\* C26: in a tick in which a goal is scored possession is not arbitrated: at
\* the end of that tick the ball has no possessor, even with a player within
\* POSSESSION_DISTANCE of the centre.
NoClaimInGoalTick ==
    GoalTick(store) =>
        /\ NextTick(store).score # store.score
        /\ NextTick(store).ball.possessionPlayerId = 0
        /\ NextTick(store).ball.lastTouchPlayerId = store.ball.lastTouchPlayerId

\* --------------------------------------------------------- countdown expiry
\* the tick due on a record in countdown starts play once COUNTDOWN_DURATION
\* has passed, and not before
CountdownTick ==
    (store.status = "countdown" /\ clock - store.lastUpdate >= SIMULATION_STEP) =>
        IF clock - store.countdownStartTime >= COUNTDOWN_DURATION
        THEN /\ Simulated.state.status = "playing"
             /\ Simulated.state.startedAt = clock
        ELSE /\ Simulated.state.status = "countdown"
             /\ Simulated.state.startedAt = store.startedAt

StartTimePresent == store.countdownStartTime # 0 <=> store.status = "countdown"

\* a tick saved on a record in countdown stores the same
ExpiryStored ==
    (store.status = "countdown" /\ store'.lastUpdate # store.lastUpdate) =>
        IF clock - store.countdownStartTime >= COUNTDOWN_DURATION
        THEN store'.status = "playing" /\ store'.startedAt = clock
        ELSE store'.status = "countdown" /\ store'.startedAt = store.startedAt

\* C27: a tick run in countdown with now - countdownStartTime >=
\* COUNTDOWN_DURATION sets the status to playing and stamps startedAt, a tick
\* run earlier leaves the countdown, and in every reachable state
\* countdownStartTime is present exactly when the status is countdown.
CountdownExpiry == [](CountdownTick /\ StartTimePresent) /\ [][ExpiryStored]_vars

\* play has just started, exactly COUNTDOWN_DURATION after the last join
CountdownExpiryWitness ==
    /\ store.status = "playing"
    /\ store.startedAt = clock
    /\ store.lastUpdate = clock
    /\ store.countdownStartTime = 0
    /\ clock = StartClock + COUNTDOWN_DURATION

\* ---------------------------------------------------------------- the pass
\* what an accepted pass of passer to target leaves of the caught-up record
PassLeaves(res, before, passer, target, speed) ==
    /\ ~PlayerById(res.state, passer).hasBall
    /\ res.state.ball.possessionPlayerId = 0
    /\ PlayerById(res.state, passer).stats.passes = PlayerById(before, passer).stats.passes + 1
    /\ PlayerById(res.state, passer).lastActionTime = clock
    /\ res.state.ball.velocity # Vel(0, 0)
    /\ res.state.ball.velocity
           = Aim(PlayerById(before, passer).position, PlayerById(before, target).position, speed)
    /\ \A id \in KnownIds \ {passer} :
           HasPlayer(before, id) => PlayerById(res.state, id) = PlayerById(before, id)

\* C28: after an accepted pass the passer's hasBall is false,
\* ball.possessionPlayerId is unset, the passer's stats.passes is one higher,
\* its lastActionTime is the call time, the ball's velocity is the unit vector
\* from passer to target times the pass speed, hence not zero, and no other
\* player's fields change.
PassEffect ==
    \A passer \in KnownIds, target \in KnownIds,
       speed \in PassSpeeds \cup {MIN_PASS_SPEED, MAX_PASS_SPEED} :
        passBall(store, Simulated, clock, passer, target, speed).ok
            => PassLeaves(passBall(store, Simulated, clock, passer, target, speed),
                          Simulated.state, passer, target,
                          IF speed = NoSpeed THEN PASS_SPEED ELSE speed)

\* --------------------------------------------------------------- the tackle
\* what an accepted tackle leaves of the caught-up record: after a failed draw
\* the record with the tackler stamped (and the version counted), after a
\* successful one the ball freed with the bounce and the tackle counted
TackleLeaves(res, before, tackler, target, won, bounce) ==
    IF won
    THEN /\ ~PlayerById(res.state, target).hasBall
         /\ res.state.ball.possessionPlayerId = 0
         /\ res.state.ball.velocity = bounce /\ bounce # Vel(0, 0)
         /\ PlayerById(res.state, tackler).stats.tackles
                = PlayerById(before, tackler).stats.tackles + 1
    ELSE res.state = [SetPlayer(before, [PlayerById(before, tackler)
                                            EXCEPT !.lastActionTime = clock])
                         EXCEPT !.version = @ + 1]

TackleAnswers ==
    \A tackler \in KnownIds, target \in KnownIds, won \in BOOLEAN, bounce \in Bounces :
        tackle(store, Simulated, clock, tackler, target, won, bounce).ok
            => TackleLeaves(tackle(store, Simulated, clock, tackler, target, won, bounce),
                            Simulated.state, tackler, target, won, bounce)

\* a failed tackle stored: the target still has the ball, which keeps its velocity
TackleStored ==
    (acts' # acts /\ calls'[1].ok /\ calls'[1].op = "tackle" /\ ~calls'[1].req.success) =>
        /\ PlayerById(store', calls'[1].req.target).hasBall
        /\ store'.ball.possessionPlayerId = calls'[1].req.target
        /\ store'.ball.velocity = Simulated.state.ball.velocity
        /\ \A id \in KnownIds :
               HasPlayer(store', id)
                   => PlayerById(store', id).stats = PlayerById(Simulated.state, id).stats
        /\ PlayerById(store', calls'[1].req.player).lastActionTime = clock

\* C29: an accepted tackle whose draw fails changes nothing but the tackler's
\* lastActionTime (the target keeps the ball, the ball's velocity and every
\* stat are unchanged); one whose draw succeeds clears the target's hasBall
\* and ball.possessionPlayerId, gives the ball a non-zero velocity and raises
\* the tackler's stats.tackles by exactly 1.
TackleOutcomes == []TackleAnswers /\ [][TackleStored]_vars

\* a failed tackle has been stored: the tackler is stamped, the target holds the ball
TackleOutcomesWitness ==
    /\ calls[1].pc = "done" /\ calls[1].ok /\ calls[1].op = "tackle" /\ ~calls[1].req.success
    /\ PlayerById(store, calls[1].req.player).lastActionTime = calls[1].now
    /\ PlayerById(store, calls[1].req.player).stats.tackles = 0
    /\ PlayerById(store, calls[1].req.target).hasBall
    /\ store.ball.possessionPlayerId = calls[1].req.target

\* -------------------------------------------------------------- claim order
\* the record the claim loop of the next tick runs on
BeforeClaim(state) == Goals(Flown(state), state.lastUpdate + SIMULATION_STEP).state

InReach(state, roster) == {i \in DOMAIN roster : CanClaim(state, roster[i])}

\* roster A in join order, then roster B in join order
FirstInReach(state) ==
    IF InReach(state, state.teamA) # {}
    THEN state.teamA[CHOOSE i \in InReach(state, state.teamA) :
                         \A j \in InReach(state, state.teamA) : i <= j].id
    ELSE state.teamB[CHOOSE i \in InReach(state, state.teamB) :
                         \A j \in InReach(state, state.teamB) : i <= j].id

Gainers(before, after) ==
    {id \in KnownIds : /\ HasPlayer(before, id)
                       /\ ~PlayerById(before, id).hasBall
                       /\ PlayerById(after, id).hasBall}

\* the claim of the tick, run on the record before, left the record after
ClaimOrdered(before, after) ==
    (InReach(before, before.teamA) \cup InReach(before, before.teamB) # {}) =>
        /\ after.ball.possessionPlayerId = FirstInReach(before)
        /\ Gainers(before, after) = {FirstInReach(before)}

TouchedBy(state, toucher) == [state EXCEPT !.ball.lastTouchPlayerId = toucher]

OnTeam(state, id, team) ==
    \E i \in DOMAIN Roster(state, team) : Roster(state, team)[i].id = id

\* a goal for team: one more goal for the last toucher if it plays for team,
\* every other player's goals as they were
Credited(before, after, team) ==
    \A id \in KnownIds :
        HasPlayer(before, id) =>
            PlayerById(after, id).stats.goals =
                PlayerById(before, id).stats.goals
                + (IF id = before.ball.lastTouchPlayerId /\ OnTeam(before, id, team)
                   THEN 1 ELSE 0)

\* C31: when a goal is scored, stats.goals goes up by exactly 1 on the player
\* named by ball.lastTouchPlayerId if and only if that player belongs to the
\* team credited with the goal; for an own goal or an unset last toucher no
\* player's stats.goals changes.  Checked for every last toucher the record
\* could name.
ScorerCredit ==
    \A toucher \in KnownIds \cup {0} :
        (toucher = 0 \/ HasPlayer(store, toucher)) =>
            /\ (Loose(store) /\ InLeftGoal(Flown(store).ball.position))
                   => Credited(TouchedBy(store, toucher),
                               NextTick(TouchedBy(store, toucher)), "B")
            /\ (Loose(store) /\ InRightGoal(Flown(store).ball.position))
                   => Credited(TouchedBy(store, toucher),
                               NextTick(TouchedBy(store, toucher)), "A")

\* the creator's shot has gone in: a goal for team A and one for the creator
ScorerCreditWitness ==
    /\ store.score.teamA = 1
    /\ store.ball.lastTouchPlayerId = store.teamA[1].id
    /\ store.teamA[1].stats.goals = 1
    /\ store.teamB[1].stats.goals = 0
    /\ store.ball.position = Centre

\* ------------------------------------------------------ role auto-assignment
RolesOf(roster) == [i \in DOMAIN roster |-> roster[i].role]

Holding(roles, role) == {i \in DOMAIN roles : roles[i] = role}

\* the stated rule, on the roles a roster already holds
RuleRole(roles) ==
    IF Holding(roles, "goalkeeper") = {} THEN "goalkeeper"
    ELSE IF Cardinality(Holding(roles, "defender")) < 2 THEN "defender"
    ELSE IF Cardinality(Holding(roles, "midfielder")) < 2 THEN "midfielder"
    ELSE "striker"

\* the join put the new player last in the roster of team and gave it the
\* role the rule gives on the roster as it was
RuleFollowed(before, after, team) ==
    Len(Roster(after, team)) = Len(Roster(before, team)) + 1 =>
        Roster(after, team)[Len(Roster(after, team))].role
            = RuleRole(RolesOf(Roster(before, team)))

\* every join without a role on the stored record, each team preference included
RoleByRoster ==
    \A teamPreference \in {"none", "A", "B"} :
        joinGame(store, clock, nextId, teamPreference, "none").ok =>
            \A team \in {"A", "B"} :
                RuleFollowed(store,
                             joinGame(store, clock, nextId, teamPreference, "none").state,
                             team)

\* every player from first on has the role the rule gives on the players
\* before it: the roster was filled by joins that left the role open
AutoFilled(roles, first) ==
    \A i \in first .. Len(roles) : roles[i] = RuleRole(SubSeq(roles, 1, i - 1))

OneKeeper(roles, first) ==
    (AutoFilled(roles, first) /\ Len(roles) >= 2)
        => Cardinality(Holding(roles, "goalkeeper")) = 1

\* C32: a join that gives no role gets goalkeeper if the chosen roster has
\* none, else defender while it has fewer than 2, else midfielder while it has
\* fewer than 2, else striker; so a roster filled only by such joins (roster A
\* after its creator, a striker) holds exactly one goalkeeper once it has at
\* least two players.
RoleAutoAssigned ==
    /\ RoleByRoster
    /\ OneKeeper(RolesOf(store.teamA), 2)
    /\ OneKeeper(RolesOf(store.teamB), 1)

\* a six-a-side game whose rosters were filled without naming a role, the
\* twelfth player just joined as team B's striker
RoleAutoAssignedWitness ==
    /\ calls[1].pc = "done" /\ calls[1].op = "join" /\ calls[1].ok
    /\ calls[1].req.role = "none"
    /\ RolesOf(store.teamA) = <<"striker", "goalkeeper", "defender", "defender",
                                "midfielder", "midfielder">>
    /\ RolesOf(store.teamB) = <<"goalkeeper", "defender", "defender",
                                "midfielder", "midfielder", "striker">>

\* ------------------------------------------------------ persist only on change
\* getGameState called now would save
StateCallSaves == getGameState(store, Simulated, clock).saved

\* no player has a target, the ball is at rest and a tick leaves the status
Quiet(state, after) ==
    /\ \A i \in DOMAIN allPlayers(state) : allPlayers(state)[i].targetPosition = NoPos
    /\ state.ball.velocity = Vel(0, 0)
    /\ after.status = state.status

\* C33: a getState call writes to the store if and only if its catch-up
\* changed some world field (the record it loads is clean); in particular,
\* while no player has a target, the ball is at rest and the status does not
\* change, repeated getState calls perform no store write.
PersistOnlyOnChange ==
    /\ StateCallSaves <=> WorldChanged(store, Simulated.state)
    /\ Quiet(store, Simulated.state) => ~StateCallSaves

\* ----------------------------------------------------- the ball comes to rest
\* a pass, shot or tackle has just set the ball free
Released ==
    /\ acts = 1 /\ calls[1].pc = "done" /\ calls[1].op \in {"pass", "shoot", "tackle"}
    /\ store.status = "playing"
    /\ store.ball.possessionPlayerId = 0
    /\ store.ball.velocity # Vel(0, 0)

\* the ball is possessed, or a goal has reset it, or it lies still
Settled ==
    \/ store.ball.possessionPlayerId # 0
    \/ store.score.teamA + store.score.teamB > 0 /\ store.ball.position = Centre
    \/ store.ball.velocity = Vel(0, 0)

\* a free ball at rest is at rest after the next tick
RestStays == (Loose(store) /\ store.ball.velocity = Vel(0, 0)) =>
                 NextTick(store).ball.velocity = Vel(0, 0)

\* C34: with friction below 1 and the 0.1 per-component snap threshold, a free
\* ball given a pass, shoot or tackle velocity reaches, after finitely many
\* ticks and with no further action, a state where it is possessed, a goal has
\* reset it, or its velocity is exactly zero, and a zero velocity stays zero.
BallComesToRest == (Released ~> Settled) /\ []RestStays

\* the shot at 26 px per tick has rolled out short of team B's goalkeeper: the
\* ball lies free and still between the centre and the goal
BallComesToRestWitness ==
    /\ acts = 1 /\ calls[1].op = "state"
    /\ store.ball.possessionPlayerId = 0
    /\ store.ball.velocity = Vel(0, 0)
    /\ store.score.teamA + store.score.teamB = 0
    /\ store.ball.position.x > Px(1000)
    /\ store.ball.position.y = Px(400)

\* ------------------------------------------------- a move reaches its target
\* the target of a move request, brought inside the field
Bounded(pos) ==
    Pos(Max(Px(PLAYER_RADIUS), Min(Px(FIELD_WIDTH - PLAYER_RADIUS), pos.x)),
        Max(Px(PLAYER_RADIUS), Min(Px(FIELD_HEIGHT - PLAYER_RADIUS), pos.y)))

\* the move of the creator towards pos has just been accepted
MoveSent(pos) ==
    /\ acts = 1 /\ calls[1].pc = "done" /\ calls[1].op = "move" /\ calls[1].ok
    /\ calls[1].req.player = 1 /\ calls[1].req.pos = pos
    /\ store.teamA[1].targetPosition = Bounded(pos)

\* the creator stands on pos, within the 0.5 px the players loop counts as
\* arrived, and has no target left
StandsAt(pos) ==
    /\ store.teamA[1].targetPosition = NoPos
    /\ Hypot(pos.x - store.teamA[1].position.x, pos.y - store.teamA[1].position.y)
           <= Unit \div 2

\* the next tick leaves the player's target or clears it, and does not take
\* the player further from it
Nearing(player, after) ==
    /\ after.targetPosition \in {player.targetPosition, NoPos}
    /\ Hypot(player.targetPosition.x - after.position.x,
             player.targetPosition.y - after.position.y) <= TargetDist(player)

NeverFurther ==
    store.status = "playing" =>
        \A id \in KnownIds :
            (HasPlayer(store, id) /\ PlayerById(store, id).targetPosition # NoPos)
                => Nearing(PlayerById(store, id), PlayerById(NextTick(store), id))

\* C35: after an accepted move-intent, if ticks keep running while the status
\* is playing and the player issues no new move-intent, the player eventually
\* stands at the clamped target and targetPosition is eventually cleared, and
\* the player's distance to the target never increases from tick to tick.
MoveReachesTarget ==
    /\ \A pos \in {Pos(Px(1300), Px(400)), Pos(Px(300), Px(100))} :
           (MoveSent(pos) /\ store.status = "playing") ~> StandsAt(Bounded(pos))
    /\ []NeverFurther

\* the creator, sent to (1300,400) outside the field, stands at the clamped
\* target (1180,400) with no target left
MoveReachesTargetWitness ==
    /\ acts = 1 /\ calls[1].op = "state"
    /\ store.teamA[1].targetPosition = NoPos
    /\ store.teamA[1].position = Pos(Px(FIELD_WIDTH - PLAYER_RADIUS), Px(400))

\* ------------------------------------------- possession under overlapping calls
\* C36: with calls running as separate load, compute and save steps on the
\* same game, no interleaving of a tackle, pass or shoot with a concurrent
\* move-intent or getState tick leaves the stored record with a player whose
\* hasBall is true while ball.possessionPlayerId is unset or names another
\* player.
PossessionConsistent ==
    \A i \in DOMAIN allPlayers(store) :
        allPlayers(store)[i].hasBall
            => store.ball.possessionPlayerId = allPlayers(store)[i].id

\* ------------------------------------------------------------ joins are kept
\* the places in the two rosters where the player with this id stands
Seats(id) == {i \in DOMAIN allPlayers(store) : allPlayers(store)[i].id = id}

\* C37: whatever the interleaving of concurrent joinGame calls on the same
\* waiting game, once all the calls have completed every call that returned
\* success with a playerId (the ids handed out so far, 1 the creator's) has
\* that player in exactly one roster of the stored record.
JoinsNotLost ==
    (\A c \in Slots : calls[c].pc # "saving") =>
        \A id \in 1 .. nextId - 1 : Cardinality(Seats(id)) = 1

\* -------------------------------------------------------- the cancelled stream
Cancelled == stream.pc \in {"cancelled", "orphan"}

\* a loop iteration calls getGameState
ReadStarts == stream.pc # "await" /\ stream'.pc = "await"

\* C38: once the consumer has cancelled a subscription, no further snapshot is
\* emitted on it and no further store read is started for it, even when the
\* cancel arrives while a loop iteration is waiting on getGameState.
CancelStops ==
    [][Cancelled => (~Emits /\ ~ReadStarts /\ stream'.pc \in {"cancelled", "orphan"})]_vars

\* the cancel came while an iteration was waiting: getGameState has returned
\* at the time of that iteration and its snapshot was not sent
CancelStopsWitness ==
    /\ stream.pc = "cancelled"
    /\ stream.count >= 1
    /\ clock = stream.wake
    /\ stream.last < clock

====
